---- MODULE Spec2Model ----
(***************************************************************************)
(* Workspace resolution of prt (internal/workspace, internal/git).         *)
(*                                                                         *)
(* Strings (paths, URLs, branch names, remote names) are finite sequences  *)
(* of symbols; a symbol stands for a fixed run of characters ("octo",      *)
(* "/", ".git", ...), so that concatenation, prefix, suffix, substring and *)
(* case folding are computed the way the Go code computes them.            *)
(*                                                                         *)
(* The world is the file system (dirs, mtime) and the git repositories     *)
(* found in it (repos).  A Resolve call is a frame that walks through the  *)
(* statements of resolvePersistent / resolveTemp, one git or file-system   *)
(* operation per step; every operation that can fail in the code can fail  *)
(* here.                                                                   *)
(***************************************************************************)
EXTENDS Integers, Sequences, FiniteSets, TLC

VARIABLES opts, dirs, repos, mtime, clock, frame, clean, hist

vars == <<opts, dirs, repos, mtime, clock, frame, clean, hist>>

(***************************************************************************)
(* Bounds                                                                  *)
(***************************************************************************)
MaxTime == 2

(***************************************************************************)
(* Strings                                                                 *)
(***************************************************************************)
Empty == <<>>

LowerSym(sym) ==
  CASE sym = "Octo" -> "octo"
    [] sym = "Fork" -> "fork"
    [] OTHER -> sym

ToLower(s) == [i \in 1..Len(s) |-> LowerSym(s[i])]

EqualFold(a, b) == ToLower(a) = ToLower(b)

Contains(s, sub) ==
  \E i \in 0..(Len(s) - Len(sub)) : SubSeq(s, i + 1, i + Len(sub)) = sub

HasPrefix(s, p) == Len(s) >= Len(p) /\ SubSeq(s, 1, Len(p)) = p

TrimPrefix(s, p) == IF HasPrefix(s, p) THEN SubSeq(s, Len(p) + 1, Len(s)) ELSE s

HasSuffix(s, p) == Len(s) >= Len(p) /\ SubSeq(s, Len(s) - Len(p) + 1, Len(s)) = p

Join(a, b) == a \o <<"/">> \o b

(* strings.ReplaceAll: the non-overlapping occurrences of old (not empty),  *)
(* left to right                                                           *)
RECURSIVE ReplaceAll(_, _, _)
ReplaceAll(s, old, new) ==
  IF s = Empty THEN Empty
  ELSE IF HasPrefix(s, old)
  THEN new \o ReplaceAll(SubSeq(s, Len(old) + 1, Len(s)), old, new)
  ELSE <<Head(s)>> \o ReplaceAll(Tail(s), old, new)

(* unicode.IsSpace, on the characters used here *)
IsSpace(sym) == sym \in {" ", "\t", "\n"}

RECURSIVE TrimLeft(_)
TrimLeft(s) == IF s # Empty /\ IsSpace(Head(s)) THEN TrimLeft(Tail(s)) ELSE s

RECURSIVE TrimRight(_)
TrimRight(s) ==
  IF s # Empty /\ IsSpace(s[Len(s)]) THEN TrimRight(SubSeq(s, 1, Len(s) - 1)) ELSE s

TrimSpace(s) == TrimRight(TrimLeft(s))

(***************************************************************************)
(* Inputs: configuration, repositories, pull requests                      *)
(***************************************************************************)
ProjectsDir == <<"/projects">>

TempDir == <<"/tmp/prt">>

Repository(owner, name, cloneURL) ==
  [Owner |-> owner, Name |-> name, CloneURL |-> cloneURL]

GitHubURL(owner, name) ==
  <<"https://github.com/">> \o owner \o <<"/">> \o name \o <<".git">>

OctoRepo == Repository(<<"octo">>, <<"repo">>, GitHubURL(<<"octo">>, <<"repo">>))

ForkRepo == Repository(<<"fork">>, <<"repo">>, GitHubURL(<<"fork">>, <<"repo">>))

PRMetadata(number, headRef, base, head) ==
  [Number |-> number, HeadRef |-> headRef, BaseRepo |-> base, HeadRepo |-> head]

PR15 == PRMetadata("15", <<"feature">>, OctoRepo, OctoRepo)

PR21 == PRMetadata("21", <<"fix", "/", "bug">>, OctoRepo, ForkRepo)

PRs == {PR15, PR21}

(***************************************************************************)
(* Pure helpers of internal/workspace                                      *)
(***************************************************************************)
(* variant: owner and name are compared exactly *)
isCrossRepo_CaseSensitive(pr) ==
  \/ pr.BaseRepo.Owner # pr.HeadRepo.Owner
  \/ pr.BaseRepo.Name # pr.HeadRepo.Name

isCrossRepo(pr) ==
  \/ ~EqualFold(pr.BaseRepo.Owner, pr.HeadRepo.Owner)
  \/ ~EqualFold(pr.BaseRepo.Name, pr.HeadRepo.Name)

(* variant: the fork remote is named after the head owner only *)
forkRemoteName_OwnerOnly(pr) ==
  <<"prt", "/">> \o pr.HeadRepo.Owner

forkRemoteName(pr) ==
  <<"prt", "/">> \o pr.HeadRepo.Owner \o <<"/">> \o pr.HeadRepo.Name

branchRefForPR(pr) ==
  IF isCrossRepo(pr)
  THEN <<"pr", "/", pr.Number, "/">> \o pr.HeadRef
  ELSE pr.HeadRef

remoteRefForPR(pr) ==
  IF isCrossRepo(pr)
  THEN forkRemoteName(pr) \o <<"/">> \o pr.HeadRef
  ELSE <<"origin", "/">> \o pr.HeadRef

(* variant: runs of dots are kept *)
sanitizeBranch_KeepsDots(branch) ==
  LET b1 == TrimSpace(branch)
      b2 == ReplaceAll(b1, <<"/">>, <<"-">>)
      b3 == ReplaceAll(b2, <<" ">>, <<"-">>)
      b4 == b3
  IN  IF b4 = Empty THEN <<"branch">> ELSE b4

sanitizeBranch(branch) ==
  LET b1 == TrimSpace(branch)
      b2 == ReplaceAll(b1, <<"/">>, <<"-">>)
      b3 == ReplaceAll(b2, <<" ">>, <<"-">>)
      b4 == ReplaceAll(b3, <<".", ".">>, <<"-">>)
  IN  IF b4 = Empty THEN <<"branch">> ELSE b4

worktreeName(pr) == <<"pr", "-", pr.Number, "-">> \o sanitizeBranch(pr.HeadRef)

repoSlug(repo) == repo.Owner \o <<"-">> \o repo.Name

repoMatchesOrigin(origin, repo) ==
  Contains(ToLower(origin), ToLower(repo.Owner \o <<"/">> \o repo.Name))

(***************************************************************************)
(* Pure helpers of internal/git                                            *)
(***************************************************************************)
RefsHeads == <<"refs/heads/">>

(* variant: refs compared without stripping refs/heads/ *)
branchMatches_Exact(ref, branch) == ref = branch

branchMatches(ref, branch) ==
  IF ref = branch THEN TRUE
  ELSE IF HasPrefix(ref, RefsHeads) THEN TrimPrefix(ref, RefsHeads) = branch
  ELSE IF HasPrefix(branch, RefsHeads) THEN TrimPrefix(branch, RefsHeads) = ref
  ELSE FALSE

(***************************************************************************)
(* The world: file system and git repositories.  A world value is a record *)
(* [dirs, repos, mtime]; the operators below are the effects of the        *)
(* GitClient operations and of the os calls on it.                         *)
(***************************************************************************)
World == [dirs |-> dirs, repos |-> repos, mtime |-> mtime]

Origin == <<"origin">>

MainRef == <<"refs/heads/", "main">>

Worktree(path, branch) == [Path |-> path, Branch |-> branch]

Op(name, dir, args, res) == [op |-> name, dir |-> dir, args |-> args, res |-> res]

Ret(w, err, log) == [w |-> w, err |-> err, log |-> log]

pathExists(w, path) == path \in w.dirs

IsGitRepo(w, repoDir) == repoDir \in DOMAIN w.repos

HasRemote(w, repoDir, name) == name \in DOMAIN w.repos[repoDir].remotes

RemoteURL(w, repoDir, name) == w.repos[repoDir].remotes[name]

ClonedRepo(url, dest, bare) ==
  [remotes |-> (Origin :> url),
   worktrees |-> <<Worktree(dest, IF bare THEN Empty ELSE MainRef)>>,
   branches |-> {<<"main">>},
   bare |-> bare]

Clone(w, url, dest, bare) ==
  [w EXCEPT !.dirs = @ \cup {dest},
            !.repos = (dest :> ClonedRepo(url, dest, bare)) @@ @]

AddRemote(w, repoDir, name, url) ==
  [w EXCEPT !.repos[repoDir].remotes = (name :> url) @@ @]

AlreadyExists == <<"already", " ", "exists">>

(* variant: the output decides alone, whatever the force flag *)
addBranchError_IgnoresForce(output, runErr, force) ==
  IF runErr
  THEN IF Contains(output, AlreadyExists) THEN "BranchExists" ELSE "generic"
  ELSE ""

(* the error WorktreeAddBranch returns, from what the command printed,     *)
(* whether it failed, and the force flag                                   *)
addBranchError(output, runErr, force) ==
  IF runErr
  THEN IF ~force /\ Contains(output, AlreadyExists) THEN "BranchExists" ELSE "generic"
  ELSE ""

WorktreeList(w, repoDir) == w.repos[repoDir].worktrees

(* strings.Split(s, "\n"), cur being the line read so far *)
RECURSIVE Split(_, _)
Split(s, cur) ==
  IF s = Empty THEN <<cur>>
  ELSE IF Head(s) = "\n" THEN <<cur>> \o Split(Tail(s), Empty)
  ELSE Split(Tail(s), cur \o <<Head(s)>>)

(* the loop of parseWorktreeList: current is <<>> for nil, else one entry *)
RECURSIVE parseLines(_, _, _)
parseLines(lines, worktrees, current) ==
  IF lines = <<>> THEN worktrees \o current
  ELSE LET line == Head(lines)
       IN  IF HasPrefix(line, <<"worktree ">>)
           THEN parseLines(Tail(lines), worktrees \o current,
                           <<Worktree(TrimSpace(TrimPrefix(line, <<"worktree ">>)), Empty)>>)
           ELSE IF HasPrefix(line, <<"branch ">>) /\ current # <<>>
           THEN parseLines(Tail(lines), worktrees,
                           <<[current[1] EXCEPT
                                !.Branch = TrimSpace(TrimPrefix(line, <<"branch ">>))]>>)
           ELSE parseLines(Tail(lines), worktrees, current)

(* variant: the pending entry is kept only when a blank line ends the listing *)
parseWorktreeList_DropsPending(output) ==
  LET all == parseLines(Split(output, Empty), <<>>, <<>>)
  IN  IF all = <<>> \/ HasSuffix(output, <<"\n", "\n">>) THEN all
      ELSE SubSeq(all, 1, Len(all) - 1)

parseWorktreeList(output) == parseLines(Split(output, Empty), <<>>, <<>>)

RECURSIVE FirstMatch(_, _)
FirstMatch(worktrees, branch) ==
  IF worktrees = <<>> THEN [Path |-> Empty, ok |-> FALSE]
  ELSE IF branchMatches(Head(worktrees).Branch, branch)
       THEN [Path |-> Head(worktrees).Path, ok |-> TRUE]
       ELSE FirstMatch(Tail(worktrees), branch)

(* variant: the registered worktrees are not consulted *)
HasWorktreeForBranch_Blind(w, repoDir, branch) == [Path |-> Empty, ok |-> FALSE]

HasWorktreeForBranch(w, repoDir, branch) == FirstMatch(WorktreeList(w, repoDir), branch)

BranchClaimed(w, repoDir, branch) ==
  \E i \in 1..Len(w.repos[repoDir].worktrees) :
     w.repos[repoDir].worktrees[i].Branch = RefsHeads \o branch

(* variant: the new worktree is registered without its branch *)
AddedWorktree_Detached(w, repoDir, worktreePath, branch, now) ==
  [w EXCEPT !.dirs = @ \cup {worktreePath},
            !.repos[repoDir].worktrees = Append(@, Worktree(worktreePath, Empty)),
            !.repos[repoDir].branches = @ \cup {branch},
            !.mtime = IF w.repos[repoDir].bare THEN (worktreePath :> now) @@ @ ELSE @]

AddedWorktree(w, repoDir, worktreePath, branch, now) ==
  [w EXCEPT !.dirs = @ \cup {worktreePath},
            !.repos[repoDir].worktrees = Append(@, Worktree(worktreePath, RefsHeads \o branch)),
            !.repos[repoDir].branches = @ \cup {branch},
            !.mtime = IF w.repos[repoDir].bare THEN (worktreePath :> now) @@ @ ELSE @]

(* a path git finds populated: a repository, a checked-out worktree, or a  *)
(* directory with entries                                                  *)
Populated(w, path) ==
  /\ path \in w.dirs
  /\ \/ path \in DOMAIN w.repos
     \/ \E d \in DOMAIN w.repos : \E i \in 1..Len(w.repos[d].worktrees) :
          w.repos[d].worktrees[i].Path = path
     \/ \E q \in w.dirs : q # path /\ HasPrefix(q, path \o <<"/">>)

(* variant: git worktree add accepts a populated path *)
WorktreeAddBranch_OverExisting(w, repoDir, worktreePath, branch, startPoint, force, failed, refuse, now) ==
  LET exists == branch \in w.repos[repoDir].branches
      err == IF failed THEN "generic"
             ELSE IF ~force /\ exists THEN "BranchExists"
             ELSE IF force /\ refuse /\ BranchClaimed(w, repoDir, branch) THEN "generic"
             ELSE ""
  IN  Ret(IF err = "" THEN AddedWorktree(w, repoDir, worktreePath, branch, now) ELSE w,
          err,
          <<Op("WorktreeAddBranch", repoDir, <<worktreePath, branch, startPoint, force>>, err)>>)

(***************************************************************************)
(* WorktreeAddBranch (internal/git): git worktree add -b/-B.  The outcome  *)
(* is "" (success), "BranchExists" or "generic".  git fails with a message *)
(* holding "already exists" when the branch exists (-b) or the path is     *)
(* populated (-b and -B); without force that message is reported as        *)
(* ErrBranchExists.  failed = TRUE is any other failure of the command.    *)
(* With -B git resets the branch; whether the GitClient refuses a branch   *)
(* that another worktree has checked out is left to the collaborator       *)
(* (refuse).                                                               *)
(***************************************************************************)
WorktreeAddBranch(w, repoDir, worktreePath, branch, startPoint, force, failed, refuse, now) ==
  LET exists == branch \in w.repos[repoDir].branches
      taken == Populated(w, worktreePath)
      runErr == \/ failed
                \/ ~force /\ exists
                \/ taken
                \/ force /\ refuse /\ BranchClaimed(w, repoDir, branch)
      output == IF ~failed /\ (exists \/ taken)
                THEN <<"fatal:", " ">> \o AlreadyExists
                ELSE <<"fatal:">>
      err == addBranchError(output, runErr, force)
  IN  Ret(IF err = "" THEN AddedWorktree(w, repoDir, worktreePath, branch, now) ELSE w,
          err,
          <<Op("WorktreeAddBranch", repoDir, <<worktreePath, branch, startPoint, force>>, err)>>)

(***************************************************************************)
(* Functions of internal/workspace.  fail is the set of operations that    *)
(* fail during the invocation.                                             *)
(***************************************************************************)
(* variant: without a logger a primary directory whose origin names        *)
(* another repository is used as it is                                     *)
resolveRepoDir_LoggerDecides(w, projectsDir, repo, fail, logger) ==
  LET primary == Join(projectsDir, repo.Name)
      alternate == Join(projectsDir, repoSlug(repo))
      isRepoOp(res) == Op("IsGitRepo", primary, <<>>, res)
      originOp(res) == Op("OriginURL", primary, <<>>, res)
      origin == RemoteURL(w, primary, Origin)
      noOrigin == <<"Warning: repo at %s has no origin; using %s", primary, alternate>>
      mismatch == <<"Warning: repo at %s has origin %s which does not match %s/%s; using %s",
                    primary, origin, repo.Owner, repo.Name, alternate>>
      Printf(msg) == IF logger THEN <<msg>> ELSE <<>>
  IN  IF pathExists(w, primary)
      THEN IF "IsGitRepo" \in fail
           THEN [dir |-> Empty, err |-> "IsGitRepo", log |-> <<isRepoOp("err")>>,
                 printed |-> <<>>]
           ELSE IF IsGitRepo(w, primary)
                THEN IF "OriginURL" \in fail \/ ~HasRemote(w, primary, Origin)
                     THEN [dir |-> alternate, err |-> "",
                           log |-> <<isRepoOp("true"), originOp("err")>>,
                           printed |-> Printf(noOrigin)]
                     ELSE IF repoMatchesOrigin(origin, repo) \/ ~logger
                          THEN [dir |-> primary, err |-> "",
                                log |-> <<isRepoOp("true"), originOp("ok")>>,
                                printed |-> <<>>]
                          ELSE [dir |-> alternate, err |-> "",
                                log |-> <<isRepoOp("true"), originOp("ok")>>,
                                printed |-> Printf(mismatch)]
                ELSE [dir |-> alternate, err |-> "", log |-> <<isRepoOp("false")>>,
                      printed |-> <<>>]
      ELSE [dir |-> primary, err |-> "", log |-> <<>>, printed |-> <<>>]

resolveRepoDir(w, projectsDir, repo, fail, logger) ==
  LET primary == Join(projectsDir, repo.Name)
      alternate == Join(projectsDir, repoSlug(repo))
      isRepoOp(res) == Op("IsGitRepo", primary, <<>>, res)
      originOp(res) == Op("OriginURL", primary, <<>>, res)
      origin == RemoteURL(w, primary, Origin)
      noOrigin == <<"Warning: repo at %s has no origin; using %s", primary, alternate>>
      mismatch == <<"Warning: repo at %s has origin %s which does not match %s/%s; using %s",
                    primary, origin, repo.Owner, repo.Name, alternate>>
      Printf(msg) == IF logger THEN <<msg>> ELSE <<>>
  IN  IF pathExists(w, primary)
      THEN IF "IsGitRepo" \in fail
           THEN [dir |-> Empty, err |-> "IsGitRepo", log |-> <<isRepoOp("err")>>,
                 printed |-> <<>>]
           ELSE IF IsGitRepo(w, primary)
                THEN IF "OriginURL" \in fail \/ ~HasRemote(w, primary, Origin)
                     THEN [dir |-> alternate, err |-> "",
                           log |-> <<isRepoOp("true"), originOp("err")>>,
                           printed |-> Printf(noOrigin)]
                     ELSE IF repoMatchesOrigin(origin, repo)
                          THEN [dir |-> primary, err |-> "",
                                log |-> <<isRepoOp("true"), originOp("ok")>>,
                                printed |-> <<>>]
                          ELSE [dir |-> alternate, err |-> "",
                                log |-> <<isRepoOp("true"), originOp("ok")>>,
                                printed |-> Printf(mismatch)]
                ELSE [dir |-> alternate, err |-> "", log |-> <<isRepoOp("false")>>,
                      printed |-> <<>>]
      ELSE [dir |-> primary, err |-> "", log |-> <<>>, printed |-> <<>>]

(* variant: the repository is cloned whether or not the directory exists *)
ensureRepo_Reclones(w, repoDir, cloneURL, fail) ==
  LET cloneOp(res) == Op("Clone", repoDir, <<cloneURL>>, res)
      isRepoOp(res) == Op("IsGitRepo", repoDir, <<>>, res)
      hasOp(res) == Op("HasRemote", repoDir, <<Origin>>, res)
      addOp(res) == Op("AddRemote", repoDir, <<Origin, cloneURL>>, res)
  IN  IF TRUE
      THEN IF "Clone" \in fail
           THEN Ret(w, "Clone", <<cloneOp("err")>>)
           ELSE Ret(Clone(w, cloneURL, repoDir, FALSE), "", <<cloneOp("ok")>>)
      ELSE IF "IsGitRepo" \in fail
      THEN Ret(w, "IsGitRepo", <<isRepoOp("err")>>)
      ELSE IF ~IsGitRepo(w, repoDir)
      THEN Ret(w, "NotARepository", <<isRepoOp("false")>>)
      ELSE IF "HasRemote" \in fail
      THEN Ret(w, "HasRemote", <<isRepoOp("true"), hasOp("err")>>)
      ELSE IF ~HasRemote(w, repoDir, Origin)
      THEN IF "AddRemote" \in fail
           THEN Ret(w, "AddRemote", <<isRepoOp("true"), hasOp("false"), addOp("err")>>)
           ELSE Ret(AddRemote(w, repoDir, Origin, cloneURL), "",
                    <<isRepoOp("true"), hasOp("false"), addOp("ok")>>)
      ELSE Ret(w, "", <<isRepoOp("true"), hasOp("true")>>)

(* variant: an existing origin is pointed at the clone URL *)
ensureRepo_ResetsOrigin(w, repoDir, cloneURL, fail) ==
  LET cloneOp(res) == Op("Clone", repoDir, <<cloneURL>>, res)
      isRepoOp(res) == Op("IsGitRepo", repoDir, <<>>, res)
      hasOp(res) == Op("HasRemote", repoDir, <<Origin>>, res)
      addOp(res) == Op("AddRemote", repoDir, <<Origin, cloneURL>>, res)
  IN  IF ~pathExists(w, repoDir)
      THEN IF "Clone" \in fail
           THEN Ret(w, "Clone", <<cloneOp("err")>>)
           ELSE Ret(Clone(w, cloneURL, repoDir, FALSE), "", <<cloneOp("ok")>>)
      ELSE IF "IsGitRepo" \in fail
      THEN Ret(w, "IsGitRepo", <<isRepoOp("err")>>)
      ELSE IF ~IsGitRepo(w, repoDir)
      THEN Ret(w, "NotARepository", <<isRepoOp("false")>>)
      ELSE IF "HasRemote" \in fail
      THEN Ret(w, "HasRemote", <<isRepoOp("true"), hasOp("err")>>)
      ELSE IF ~HasRemote(w, repoDir, Origin)
      THEN IF "AddRemote" \in fail
           THEN Ret(w, "AddRemote", <<isRepoOp("true"), hasOp("false"), addOp("err")>>)
           ELSE Ret(AddRemote(w, repoDir, Origin, cloneURL), "",
                    <<isRepoOp("true"), hasOp("false"), addOp("ok")>>)
      ELSE Ret(AddRemote(w, repoDir, Origin, cloneURL), "",
               <<isRepoOp("true"), hasOp("true"), addOp("ok")>>)

ensureRepo(w, repoDir, cloneURL, fail) ==
  LET cloneOp(res) == Op("Clone", repoDir, <<cloneURL>>, res)
      isRepoOp(res) == Op("IsGitRepo", repoDir, <<>>, res)
      hasOp(res) == Op("HasRemote", repoDir, <<Origin>>, res)
      addOp(res) == Op("AddRemote", repoDir, <<Origin, cloneURL>>, res)
  IN  IF ~pathExists(w, repoDir)
      THEN IF "Clone" \in fail
           THEN Ret(w, "Clone", <<cloneOp("err")>>)
           ELSE Ret(Clone(w, cloneURL, repoDir, FALSE), "", <<cloneOp("ok")>>)
      ELSE IF "IsGitRepo" \in fail
      THEN Ret(w, "IsGitRepo", <<isRepoOp("err")>>)
      ELSE IF ~IsGitRepo(w, repoDir)
      THEN Ret(w, "NotARepository", <<isRepoOp("false")>>)
      ELSE IF "HasRemote" \in fail
      THEN Ret(w, "HasRemote", <<isRepoOp("true"), hasOp("err")>>)
      ELSE IF ~HasRemote(w, repoDir, Origin)
      THEN IF "AddRemote" \in fail
           THEN Ret(w, "AddRemote", <<isRepoOp("true"), hasOp("false"), addOp("err")>>)
           ELSE Ret(AddRemote(w, repoDir, Origin, cloneURL), "",
                    <<isRepoOp("true"), hasOp("false"), addOp("ok")>>)
      ELSE Ret(w, "", <<isRepoOp("true"), hasOp("true")>>)

FetchAllHeads == <<"+refs/heads/*:refs/remotes/origin/*">>

(* variant: only a bare repository that was just cloned gets its refspec *)
ensureBareRepo_ConfigOnClone(w, bareDir, cloneURL, fail) ==
  LET cloneOp(res) == Op("CloneBare", bareDir, <<cloneURL>>, res)
      isRepoOp(res) == Op("IsGitRepo", bareDir, <<>>, res)
      cfgOp(res) == Op("ConfigSet", bareDir, <<<<"remote.origin.fetch">>, FetchAllHeads>>, res)
      cfgRes == IF "ConfigSet" \in fail THEN "err" ELSE "ok"
      cfgErr == IF "ConfigSet" \in fail THEN "ConfigSet" ELSE ""
  IN  IF ~pathExists(w, bareDir)
      THEN IF "CloneBare" \in fail
           THEN Ret(w, "CloneBare", <<cloneOp("err")>>)
           ELSE Ret(Clone(w, cloneURL, bareDir, TRUE), cfgErr, <<cloneOp("ok"), cfgOp(cfgRes)>>)
      ELSE IF "IsGitRepo" \in fail
      THEN Ret(w, "IsGitRepo", <<isRepoOp("err")>>)
      ELSE IF ~IsGitRepo(w, bareDir)
      THEN Ret(w, "NotARepository", <<isRepoOp("false")>>)
      ELSE Ret(w, "", <<isRepoOp("true")>>)

ensureBareRepo(w, bareDir, cloneURL, fail) ==
  LET cloneOp(res) == Op("CloneBare", bareDir, <<cloneURL>>, res)
      isRepoOp(res) == Op("IsGitRepo", bareDir, <<>>, res)
      cfgOp(res) == Op("ConfigSet", bareDir, <<<<"remote.origin.fetch">>, FetchAllHeads>>, res)
      cfgRes == IF "ConfigSet" \in fail THEN "err" ELSE "ok"
      cfgErr == IF "ConfigSet" \in fail THEN "ConfigSet" ELSE ""
  IN  IF ~pathExists(w, bareDir)
      THEN IF "CloneBare" \in fail
           THEN Ret(w, "CloneBare", <<cloneOp("err")>>)
           ELSE Ret(Clone(w, cloneURL, bareDir, TRUE), cfgErr, <<cloneOp("ok"), cfgOp(cfgRes)>>)
      ELSE IF "IsGitRepo" \in fail
      THEN Ret(w, "IsGitRepo", <<isRepoOp("err")>>)
      ELSE IF ~IsGitRepo(w, bareDir)
      THEN Ret(w, "NotARepository", <<isRepoOp("false")>>)
      ELSE Ret(w, cfgErr, <<isRepoOp("true"), cfgOp(cfgRes)>>)

(* variant: an existing remote is pointed at the clone URL *)
ensureRemote_Overwrite(w, repoDir, name, url, fail) ==
  LET hasOp(res) == Op("HasRemote", repoDir, <<name>>, res)
      addOp(res) == Op("AddRemote", repoDir, <<name, url>>, res)
      setOp(res) == Op("SetRemoteURL", repoDir, <<name, url>>, res)
  IN  IF "HasRemote" \in fail
      THEN Ret(w, "HasRemote", <<hasOp("err")>>)
      ELSE IF ~HasRemote(w, repoDir, name)
      THEN IF "AddRemote" \in fail
           THEN Ret(w, "AddRemote", <<hasOp("false"), addOp("err")>>)
           ELSE Ret(AddRemote(w, repoDir, name, url), "", <<hasOp("false"), addOp("ok")>>)
      ELSE Ret(AddRemote(w, repoDir, name, url), "", <<hasOp("true"), setOp("ok")>>)

ensureRemote(w, repoDir, name, url, fail) ==
  LET hasOp(res) == Op("HasRemote", repoDir, <<name>>, res)
      addOp(res) == Op("AddRemote", repoDir, <<name, url>>, res)
  IN  IF "HasRemote" \in fail
      THEN Ret(w, "HasRemote", <<hasOp("err")>>)
      ELSE IF ~HasRemote(w, repoDir, name)
      THEN IF "AddRemote" \in fail
           THEN Ret(w, "AddRemote", <<hasOp("false"), addOp("err")>>)
           ELSE Ret(AddRemote(w, repoDir, name, url), "", <<hasOp("false"), addOp("ok")>>)
      ELSE Ret(w, "", <<hasOp("true")>>)

fetchPR(w, repoDir, pr, failed) ==
  LET remote == IF isCrossRepo(pr) THEN forkRemoteName(pr) ELSE Origin
      refspec == IF isCrossRepo(pr)
                 THEN <<"+refs/heads/">> \o pr.HeadRef \o <<":refs/remotes/">>
                        \o remote \o <<"/">> \o pr.HeadRef
                 ELSE <<"+refs/heads/">> \o pr.HeadRef \o <<":refs/remotes/origin/">>
                        \o pr.HeadRef
      res == IF failed THEN "err" ELSE "ok"
  IN  Ret(w, IF failed THEN "Fetch" ELSE "", <<Op("Fetch", repoDir, <<remote, refspec>>, res)>>)

(* variant: push.default is written in the configuration of the repository *)
ensureReadyWorktree_RepoLevelPush(w, repoDir, worktreePath, pr, fail) ==
  LET branchRef == branchRefForPR(pr)
      upstream == remoteRefForPR(pr)
      upOp(res) == Op("SetUpstream", worktreePath, <<branchRef, upstream>>, res)
      cfgOp(res) == Op("ConfigSet", repoDir, <<<<"extensions.worktreeConfig">>, <<"true">>>>, res)
      wtOp(res) == Op("ConfigSet", repoDir, <<<<"push.default">>, <<"upstream">>>>, res)
  IN  IF "SetUpstream" \in fail \/ ~pathExists(w, worktreePath)
      THEN Ret(w, "SetUpstream", <<upOp("err")>>)
      ELSE IF ~isCrossRepo(pr)
      THEN Ret(w, "", <<upOp("ok")>>)
      ELSE IF "ConfigSet" \in fail
      THEN Ret(w, "ConfigSet", <<upOp("ok"), cfgOp("err")>>)
      ELSE IF "ConfigSetWorktree" \in fail
      THEN Ret(w, "ConfigSetWorktree", <<upOp("ok"), cfgOp("ok"), wtOp("err")>>)
      ELSE Ret(w, "", <<upOp("ok"), cfgOp("ok"), wtOp("ok")>>)

ensureReadyWorktree(w, repoDir, worktreePath, pr, fail) ==
  LET branchRef == branchRefForPR(pr)
      upstream == remoteRefForPR(pr)
      upOp(res) == Op("SetUpstream", worktreePath, <<branchRef, upstream>>, res)
      cfgOp(res) == Op("ConfigSet", repoDir, <<<<"extensions.worktreeConfig">>, <<"true">>>>, res)
      wtOp(res) == Op("ConfigSetWorktree", worktreePath, <<<<"push.default">>, <<"upstream">>>>, res)
  IN  IF "SetUpstream" \in fail \/ ~pathExists(w, worktreePath)
      THEN Ret(w, "SetUpstream", <<upOp("err")>>)
      ELSE IF ~isCrossRepo(pr)
      THEN Ret(w, "", <<upOp("ok")>>)
      ELSE IF "ConfigSet" \in fail
      THEN Ret(w, "ConfigSet", <<upOp("ok"), cfgOp("err")>>)
      ELSE IF "ConfigSetWorktree" \in fail
      THEN Ret(w, "ConfigSetWorktree", <<upOp("ok"), cfgOp("ok"), wtOp("err")>>)
      ELSE Ret(w, "", <<upOp("ok"), cfgOp("ok"), wtOp("ok")>>)

(***************************************************************************)
(* Resolve: one frame per call in flight                                   *)
(***************************************************************************)
Calls == {"A", "B"}

SeqCalls == {"A"}

(* what logWarnings hands to the logger: nothing without a logger *)
logWarnings(logger, warnings) ==
  IF ~logger THEN <<>>
  ELSE [i \in 1..Len(warnings) |-> <<"Warning: %s", warnings[i]>>]

ZeroResult == [Path |-> Empty, RepoDir |-> Empty, Reused |-> FALSE, Warnings |-> <<>>]

NoWorld == [dirs |-> {}, repos |-> <<>>, mtime |-> <<>>]

(* prior: set when the call was made right after a call for the same pull  *)
(* request and strategy that returned an error at statement `at` having    *)
(* changed the files or repositories it found (pre)                        *)
NoPrior ==
  [partial |-> FALSE, at |-> "", pre |-> NoWorld, result |-> ZeroResult, log |-> <<>>]

IdleFrame ==
  [pc |-> "idle", pr |-> PR15, temp |-> FALSE, repoDir |-> Empty, path |-> Empty,
   result |-> ZeroResult, err |-> "", at |-> "", log |-> <<>>, pre |-> NoWorld,
   printed |-> <<>>, prior |-> NoPrior]

(* hist: the CleanTemp call just made (last, with the os.Stat failures it   *)
(* met) and, when the call right before it was a dry run that returned     *)
(* without error, that dry run (prev); a Resolve call clears it            *)
NoClean ==
  [pc |-> "idle", args |-> [ttl |-> 0, removeAll |-> FALSE, dryRun |-> FALSE, now |-> 0],
   results |-> <<>>, err |-> "", fail |-> {}, pre |-> NoWorld]

(* resolved: the successful Resolve(temp) the CleanTemp call came right after *)
NoResolved == [ok |-> FALSE, pr |-> PR15, result |-> ZeroResult]

NoHist == [last |-> NoClean, prev |-> NoClean, resolved |-> NoResolved]

IdleClean ==
  [pc |-> "idle", args |-> [ttl |-> 0, removeAll |-> FALSE, dryRun |-> FALSE, now |-> 0],
   results |-> <<>>, err |-> "", log |-> <<>>, pre |-> NoWorld]

Finished(c) == frame[c].pc \in {"idle", "done"}

SetWorld(w) ==
  /\ dirs' = w.dirs
  /\ repos' = w.repos
  /\ mtime' = w.mtime

(* a return statement with an error: Result{} and err; at is the statement *)
(* that returned                                                           *)
Fail(f, err, log) ==
  [f EXCEPT !.pc = "done", !.result = ZeroResult, !.err = err, !.at = f.pc, !.log = @ \o log]

Goto(f, pc, log) == [f EXCEPT !.pc = pc, !.log = @ \o log]

AfterRepo(f) == IF isCrossRepo(f.pr) THEN "ensureRemote" ELSE "lookup"

bareDirOf(tempDir, pr) == Join(tempDir, repoSlug(pr.BaseRepo) \o <<".git">>)

(* variant: the temporary worktree is named after the head repository *)
worktreePathOf_HeadRepo(f) ==
  IF f.temp
  THEN Join(TempDir, repoSlug(f.pr.HeadRepo) \o <<"-">> \o worktreeName(f.pr))
  ELSE Join(f.repoDir \o <<"-worktrees">>, worktreeName(f.pr))

worktreePathOf(f) ==
  IF f.temp
  THEN Join(TempDir, repoSlug(f.pr.BaseRepo) \o <<"-">> \o worktreeName(f.pr))
  ELSE Join(f.repoDir \o <<"-worktrees">>, worktreeName(f.pr))

ResolveCall(c, pr, temp, prior) ==
  /\ \A d \in Calls : Finished(d)
  /\ temp = opts.Temp
  /\ frame' = [frame EXCEPT ![c] =
                 [IdleFrame EXCEPT !.pc = IF temp THEN "mkdirTemp" ELSE "resolveRepoDir",
                                   !.pr = pr, !.temp = temp, !.pre = World,
                                   !.prior = prior]]
  /\ clean' = IdleClean
  /\ hist' = NoHist
  /\ UNCHANGED <<opts, dirs, repos, mtime, clock>>

Resolve(c, pr, temp) == ResolveCall(c, pr, temp, NoPrior)

PriorOf(f, pr, temp) ==
  IF f.pc = "done" /\ f.err # "" /\ f.pr = pr /\ f.temp = temp /\ f.pre # World
  THEN [partial |-> TRUE, at |-> f.at, pre |-> f.pre, result |-> f.result, log |-> f.log]
  ELSE NoPrior

(* Resolve, remembering a failed call it follows *)
ResolveTracked(c, pr, temp) == ResolveCall(c, pr, temp, PriorOf(frame[c], pr, temp))

(* at = "ok": the call right before was for the same pull request and      *)
(* strategy and returned result without error, having run the commands of  *)
(* log                                                                     *)
SuccessOf(f, pr, temp) ==
  IF f.pc = "done" /\ f.err = "" /\ f.pr = pr /\ f.temp = temp
  THEN [partial |-> FALSE, at |-> "ok", pre |-> f.pre, result |-> f.result, log |-> f.log]
  ELSE NoPrior

(* Resolve, remembering a successful call it repeats *)
ResolveRepeated(c, pr, temp) == ResolveCall(c, pr, temp, SuccessOf(frame[c], pr, temp))

(* the frame after the first statement of resolvePersistent *)
AfterResolveRepoDir(f, w, fail, logger) ==
  LET r == resolveRepoDir(w, ProjectsDir, f.pr.BaseRepo, fail, logger)
  IN  IF r.err # "" THEN Fail(f, r.err, r.log)
      ELSE [Goto(f, "ensureRepo", r.log) EXCEPT !.repoDir = r.dir,
                                                 !.printed = @ \o r.printed]

ResolveRepoDir(c) ==
  /\ frame[c].pc = "resolveRepoDir"
  /\ \E fail \in SUBSET {"IsGitRepo", "OriginURL"} :
     \E f \in {frame[c]} :
           frame' = [frame EXCEPT ![c] = AfterResolveRepoDir(f, World, fail, opts.Logger)]
  /\ UNCHANGED <<opts, dirs, repos, mtime, clock, clean, hist>>

(* variant: the repository is ensured at <projectsDir>/<repoName> *)
EnsureRepo_OnPrimary(c) ==
  /\ frame[c].pc = "ensureRepo"
  /\ \E fail \in SUBSET {"Clone", "IsGitRepo", "HasRemote", "AddRemote"} :
     \E f \in {frame[c]} :
     \E r \in {ensureRepo(World, Join(ProjectsDir, f.pr.BaseRepo.Name),
                          f.pr.BaseRepo.CloneURL, fail)} :
           /\ frame' = [frame EXCEPT ![c] =
                          IF r.err # "" THEN Fail(f, r.err, r.log)
                          ELSE Goto(f, AfterRepo(f), r.log)]
           /\ SetWorld(r.w)
  /\ UNCHANGED <<opts, clock, clean, hist>>

EnsureRepo(c) ==
  /\ frame[c].pc = "ensureRepo"
  /\ \E fail \in SUBSET {"Clone", "IsGitRepo", "HasRemote", "AddRemote"} :
     \E f \in {frame[c]} :
     \E r \in {ensureRepo(World, f.repoDir, f.pr.BaseRepo.CloneURL, fail)} :
           /\ frame' = [frame EXCEPT ![c] =
                          IF r.err # "" THEN Fail(f, r.err, r.log)
                          ELSE Goto(f, AfterRepo(f), r.log)]
           /\ SetWorld(r.w)
  /\ UNCHANGED <<opts, clock, clean, hist>>

MkdirTemp(c) ==
  /\ frame[c].pc = "mkdirTemp"
  /\ \E failed \in BOOLEAN :
       LET f == frame[c]
       IN  IF failed
           THEN /\ frame' = [frame EXCEPT ![c] =
                               Fail(f, "MkdirAll", <<Op("MkdirAll", TempDir, <<>>, "err")>>)]
                /\ UNCHANGED dirs
           ELSE /\ frame' = [frame EXCEPT ![c] =
                               [Goto(f, "ensureBareRepo", <<Op("MkdirAll", TempDir, <<>>, "ok")>>)
                                  EXCEPT !.repoDir = bareDirOf(TempDir, f.pr)]]
                /\ dirs' = dirs \cup {TempDir}
  /\ UNCHANGED <<opts, repos, mtime, clock, clean, hist>>

EnsureBareRepo(c) ==
  /\ frame[c].pc = "ensureBareRepo"
  /\ \E fail \in SUBSET {"CloneBare", "IsGitRepo", "ConfigSet"} :
     \E f \in {frame[c]} :
     \E r \in {ensureBareRepo(World, f.repoDir, f.pr.BaseRepo.CloneURL, fail)} :
           /\ frame' = [frame EXCEPT ![c] =
                          IF r.err # "" THEN Fail(f, r.err, r.log)
                          ELSE Goto(f, AfterRepo(f), r.log)]
           /\ SetWorld(r.w)
  /\ UNCHANGED <<opts, clock, clean, hist>>

EnsureRemote(c) ==
  /\ frame[c].pc = "ensureRemote"
  /\ \E fail \in SUBSET {"HasRemote", "AddRemote"} :
     \E f \in {frame[c]} :
     \E r \in {ensureRemote(World, f.repoDir, forkRemoteName(f.pr), f.pr.HeadRepo.CloneURL, fail)} :
           /\ frame' = [frame EXCEPT ![c] =
                          IF r.err # "" THEN Fail(f, r.err, r.log)
                          ELSE Goto(f, "lookup", r.log)]
           /\ SetWorld(r.w)
  /\ UNCHANGED <<opts, clock, clean, hist>>

(* variant: a found worktree is returned without the reuse mark *)
Lookup_Unmarked(c) ==
  /\ frame[c].pc = "lookup"
  /\ \E failed \in BOOLEAN :
       LET f == frame[c]
           branchRef == branchRefForPR(f.pr)
           found == HasWorktreeForBranch(World, f.repoDir, branchRef)
           op(res) == Op("HasWorktreeForBranch", f.repoDir, <<branchRef>>, res)
       IN  frame' = [frame EXCEPT ![c] =
                       IF failed THEN Fail(f, "WorktreeList", <<op("err")>>)
                       ELSE IF found.ok
                       THEN [Goto(f, "reuseFetch", <<op("found")>>) EXCEPT
                               !.path = found.Path,
                               !.result = [Path |-> found.Path, RepoDir |-> f.repoDir,
                                           Reused |-> FALSE, Warnings |-> <<>>]]
                       ELSE Goto(f, "fetch", <<op("none")>>)]
  /\ UNCHANGED <<opts, dirs, repos, mtime, clock, clean, hist>>

Lookup(c) ==
  /\ frame[c].pc = "lookup"
  /\ \E failed \in BOOLEAN :
       LET f == frame[c]
           branchRef == branchRefForPR(f.pr)
           found == HasWorktreeForBranch(World, f.repoDir, branchRef)
           op(res) == Op("HasWorktreeForBranch", f.repoDir, <<branchRef>>, res)
       IN  frame' = [frame EXCEPT ![c] =
                       IF failed THEN Fail(f, "WorktreeList", <<op("err")>>)
                       ELSE IF found.ok
                       THEN [Goto(f, "reuseFetch", <<op("found")>>) EXCEPT
                               !.path = found.Path,
                               !.result = [Path |-> found.Path, RepoDir |-> f.repoDir,
                                           Reused |-> TRUE, Warnings |-> <<>>]]
                       ELSE Goto(f, "fetch", <<op("none")>>)]
  /\ UNCHANGED <<opts, dirs, repos, mtime, clock, clean, hist>>

(* variant: a failed refresh fetch returns the error *)
ReuseFetch_Fatal(c) ==
  /\ frame[c].pc = "reuseFetch"
  /\ \E failed \in BOOLEAN :
     \E f \in {frame[c]} :
     \E r \in {fetchPR(World, f.repoDir, f.pr, failed)} :
           frame' = [frame EXCEPT ![c] =
                       IF r.err # "" THEN Fail(f, r.err, r.log)
                       ELSE Goto(f, "reuseReady", r.log)]
  /\ UNCHANGED <<opts, dirs, repos, mtime, clock, clean, hist>>

ReuseFetch(c) ==
  /\ frame[c].pc = "reuseFetch"
  /\ \E failed \in BOOLEAN :
     \E f \in {frame[c]} :
     \E r \in {fetchPR(World, f.repoDir, f.pr, failed)} :
           frame' = [frame EXCEPT ![c] =
                       IF r.err # ""
                       THEN [Goto(f, "reuseReady", r.log) EXCEPT
                               !.result.Warnings = Append(@, "fetch failed for existing worktree")]
                       ELSE Goto(f, "reuseReady", r.log)]
  /\ UNCHANGED <<opts, dirs, repos, mtime, clock, clean, hist>>

(* the frame after the last three statements of the reuse path:            *)
(* ensureReadyWorktree, logWarnings, return                                *)
AfterReuseReady(f, w, fail, logger) ==
  LET r == ensureReadyWorktree(w, f.repoDir, f.path, f.pr, fail)
      g == IF r.err # ""
           THEN [Goto(f, "done", r.log) EXCEPT
                   !.result.Warnings =
                      Append(@, "could not update worktree tracking config")]
           ELSE Goto(f, "done", r.log)
  IN  [g EXCEPT !.printed = @ \o logWarnings(logger, g.result.Warnings)]

ReuseReady(c) ==
  /\ frame[c].pc = "reuseReady"
  /\ \E fail \in SUBSET {"SetUpstream", "ConfigSet", "ConfigSetWorktree"} :
     \E f \in {frame[c]} :
           frame' = [frame EXCEPT ![c] = AfterReuseReady(f, World, fail, opts.Logger)]
  /\ UNCHANGED <<opts, dirs, repos, mtime, clock, clean, hist>>

(* variant: a failed head fetch does not stop the creation *)
Fetch_Ignored(c) ==
  /\ frame[c].pc = "fetch"
  /\ \E failed \in BOOLEAN :
     \E f \in {frame[c]} :
     \E r \in {fetchPR(World, f.repoDir, f.pr, failed)} :
           frame' = [frame EXCEPT ![c] =
                       Goto(f, IF f.temp THEN "pathCheck" ELSE "mkdirRoot", r.log)]
  /\ UNCHANGED <<opts, dirs, repos, mtime, clock, clean, hist>>

Fetch(c) ==
  /\ frame[c].pc = "fetch"
  /\ \E failed \in BOOLEAN :
     \E f \in {frame[c]} :
     \E r \in {fetchPR(World, f.repoDir, f.pr, failed)} :
           frame' = [frame EXCEPT ![c] =
                       IF r.err # "" THEN Fail(f, r.err, r.log)
                       ELSE Goto(f, IF f.temp THEN "pathCheck" ELSE "mkdirRoot", r.log)]
  /\ UNCHANGED <<opts, dirs, repos, mtime, clock, clean, hist>>

MkdirRoot(c) ==
  /\ frame[c].pc = "mkdirRoot"
  /\ \E failed \in BOOLEAN :
       LET f == frame[c]
           worktreeRoot == f.repoDir \o <<"-worktrees">>
       IN  IF failed
           THEN /\ frame' = [frame EXCEPT ![c] =
                               Fail(f, "MkdirAll", <<Op("MkdirAll", worktreeRoot, <<>>, "err")>>)]
                /\ UNCHANGED dirs
           ELSE /\ frame' = [frame EXCEPT ![c] =
                               Goto(f, "pathCheck", <<Op("MkdirAll", worktreeRoot, <<>>, "ok")>>)]
                /\ dirs' = dirs \cup {worktreeRoot}
  /\ UNCHANGED <<opts, repos, mtime, clock, clean, hist>>

(* variant: the computed path is not examined *)
PathCheck_Skip(c) ==
  /\ frame[c].pc = "pathCheck"
  /\ frame' = [frame EXCEPT ![c] =
                 [Goto(frame[c], "add", <<>>) EXCEPT !.path = worktreePathOf(frame[c])]]
  /\ UNCHANGED <<opts, dirs, repos, mtime, clock, clean, hist>>

PathCheck(c) ==
  /\ frame[c].pc = "pathCheck"
  /\ LET f == frame[c]
         worktreePath == worktreePathOf(f)
     IN  frame' = [frame EXCEPT ![c] =
                     IF pathExists(World, worktreePath)
                     THEN Fail(f, "PathExists", <<>>)
                     ELSE [Goto(f, "add", <<>>) EXCEPT !.path = worktreePath]]
  /\ UNCHANGED <<opts, dirs, repos, mtime, clock, clean, hist>>

(* variant: BranchExists is returned like any other failure *)
AddBranch_NoRetry(c) ==
  /\ frame[c].pc = "add"
  /\ \E failed \in BOOLEAN, refuse \in BOOLEAN :
     \E f \in {frame[c]} :
     \E r \in {WorktreeAddBranch(World, f.repoDir, f.path, branchRefForPR(f.pr),
                                  remoteRefForPR(f.pr), f.temp, failed, refuse, clock)} :
           /\ frame' = [frame EXCEPT ![c] =
                          IF r.err = "" THEN Goto(f, "ready", r.log)
                          ELSE Fail(f, r.err, r.log)]
           /\ SetWorld(r.w)
  /\ UNCHANGED <<opts, clock, clean, hist>>

(* variant: every failure of the first attempt is retried with force *)
AddBranch_RetryAny(c) ==
  /\ frame[c].pc = "add"
  /\ \E failed \in BOOLEAN, refuse \in BOOLEAN :
     \E f \in {frame[c]} :
     \E r \in {WorktreeAddBranch(World, f.repoDir, f.path, branchRefForPR(f.pr),
                                  remoteRefForPR(f.pr), f.temp, failed, refuse, clock)} :
           /\ frame' = [frame EXCEPT ![c] =
                          IF r.err = "" THEN Goto(f, "ready", r.log)
                          ELSE IF ~f.temp THEN Goto(f, "retry", r.log)
                          ELSE Fail(f, r.err, r.log)]
           /\ SetWorld(r.w)
  /\ UNCHANGED <<opts, clock, clean, hist>>

(* variant: the first attempt never forces, in either mode *)
AddBranch_Unforced(c) ==
  /\ frame[c].pc = "add"
  /\ \E failed \in BOOLEAN, refuse \in BOOLEAN :
     \E f \in {frame[c]} :
     \E r \in {WorktreeAddBranch(World, f.repoDir, f.path, branchRefForPR(f.pr),
                                  remoteRefForPR(f.pr), FALSE, failed, refuse, clock)} :
           /\ frame' = [frame EXCEPT ![c] =
                          IF r.err = "" THEN Goto(f, "ready", r.log)
                          ELSE IF ~f.temp /\ r.err = "BranchExists" THEN Goto(f, "retry", r.log)
                          ELSE Fail(f, r.err, r.log)]
           /\ SetWorld(r.w)
  /\ UNCHANGED <<opts, clock, clean, hist>>

AddBranch(c) ==
  /\ frame[c].pc = "add"
  /\ \E failed \in BOOLEAN, refuse \in BOOLEAN :
     \E f \in {frame[c]} :
     \E r \in {WorktreeAddBranch(World, f.repoDir, f.path, branchRefForPR(f.pr),
                                  remoteRefForPR(f.pr), f.temp, failed, refuse, clock)} :
           /\ frame' = [frame EXCEPT ![c] =
                          IF r.err = "" THEN Goto(f, "ready", r.log)
                          ELSE IF ~f.temp /\ r.err = "BranchExists" THEN Goto(f, "retry", r.log)
                          ELSE Fail(f, r.err, r.log)]
           /\ SetWorld(r.w)
  /\ UNCHANGED <<opts, clock, clean, hist>>

RetryAddBranch(c) ==
  /\ frame[c].pc = "retry"
  /\ \E failed \in BOOLEAN, refuse \in BOOLEAN :
     \E f \in {frame[c]} :
     \E r \in {WorktreeAddBranch(World, f.repoDir, f.path, branchRefForPR(f.pr),
                                  remoteRefForPR(f.pr), TRUE, failed, refuse, clock)} :
           /\ frame' = [frame EXCEPT ![c] =
                          IF r.err = "" THEN Goto(f, "ready", r.log)
                          ELSE Fail(f, r.err, r.log)]
           /\ SetWorld(r.w)
  /\ UNCHANGED <<opts, clock, clean, hist>>

Ready(c) ==
  /\ frame[c].pc = "ready"
  /\ \E fail \in SUBSET {"SetUpstream", "ConfigSet", "ConfigSetWorktree"} :
     \E f \in {frame[c]} :
     \E r \in {ensureReadyWorktree(World, f.repoDir, f.path, f.pr, fail)} :
           frame' = [frame EXCEPT ![c] =
                       IF r.err # "" THEN Fail(f, r.err, r.log)
                       ELSE [Goto(f, "done", r.log) EXCEPT
                               !.result = [Path |-> f.path, RepoDir |-> f.repoDir,
                                           Reused |-> FALSE, Warnings |-> <<>>]]]
  /\ UNCHANGED <<opts, dirs, repos, mtime, clock, clean, hist>>

ResolveStep(c) ==
  \/ ResolveRepoDir(c)
  \/ EnsureRepo(c)
  \/ MkdirTemp(c)
  \/ EnsureBareRepo(c)
  \/ EnsureRemote(c)
  \/ Lookup(c)
  \/ ReuseFetch(c)
  \/ ReuseReady(c)
  \/ Fetch(c)
  \/ MkdirRoot(c)
  \/ PathCheck(c)
  \/ AddBranch(c)
  \/ RetryAddBranch(c)
  \/ Ready(c)

(***************************************************************************)
(* CleanTemp                                                               *)
(***************************************************************************)
TTL == 1

(* os.ReadDir: the immediate children of tempDir, sorted by file name *)
IsChild(tempDir, p) ==
  /\ HasPrefix(p, tempDir \o <<"/">>)
  /\ Len(p) > Len(tempDir) + 1
  /\ \A i \in (Len(tempDir) + 2)..Len(p) : p[i] # "/"

SymOrder == <<"-", ".git", "/", "15", "21", "bug", "feature", "fix", "octo", "pr", "repo">>

SymRank(sym) == CHOOSE i \in 1..Len(SymOrder) : SymOrder[i] = sym

RECURSIVE NameLess(_, _)
NameLess(a, b) ==
  IF b = Empty THEN FALSE
  ELSE IF a = Empty THEN TRUE
  ELSE IF Head(a) = Head(b) THEN NameLess(Tail(a), Tail(b))
  ELSE SymRank(Head(a)) < SymRank(Head(b))

RECURSIVE SortPaths(_)
SortPaths(S) ==
  IF S = {} THEN <<>>
  ELSE LET m == CHOOSE x \in S : \A y \in S \ {x} : NameLess(x, y)
       IN  <<m>> \o SortPaths(S \ {m})

ReadDir(w, tempDir) == SortPaths({p \in w.dirs : IsChild(tempDir, p)})

(* variant: the registration goes, the directory stays *)
RemovedWorktree_LeavesDir(w, repoDir, worktreePath) ==
  [w EXCEPT !.repos[repoDir].worktrees = SelectSeq(@, LAMBDA wt : wt.Path # worktreePath)]

RemovedWorktree(w, repoDir, worktreePath) ==
  [w EXCEPT !.dirs = @ \ {worktreePath},
            !.repos[repoDir].worktrees = SelectSeq(@, LAMBDA wt : wt.Path # worktreePath),
            !.mtime = [p \in (DOMAIN @) \ {worktreePath} |-> @[p]]]

RemoveAll(w, dir) ==
  [w EXCEPT !.dirs = {p \in @ : ~HasPrefix(p, dir \o <<"/">>) /\ p # dir},
            !.repos = [d \in (DOMAIN @) \ {dir} |-> @[d]]]

CleanState(w, results, removed, err, log) ==
  [w |-> w, results |-> results, removed |-> removed, err |-> err, log |-> log]

(* variant: a live run does not consult the age of a worktree *)
RECURSIVE removeLoop_LiveIgnoresAge(_, _, _, _, _)
removeLoop_LiveIgnoresAge(st, worktrees, bareDir, a, fail) ==
  IF worktrees = <<>> \/ st.err # "" THEN st
  ELSE LET wt == Head(worktrees)
           rest == Tail(worktrees)
           statOK == pathExists(st.w, wt.Path) /\ <<"Stat", wt.Path>> \notin fail
           shouldRemove ==
             IF a.removeAll \/ ~a.dryRun THEN TRUE
             ELSE statOK /\ wt.Path \in DOMAIN st.w.mtime
                         /\ a.now - st.w.mtime[wt.Path] >= a.ttl
           rmOp(res) == Op("WorktreeRemove", bareDir, <<wt.Path, TRUE>>, res)
       IN  IF wt.Path = bareDir THEN removeLoop_LiveIgnoresAge(st, rest, bareDir, a, fail)
           ELSE IF ~shouldRemove THEN removeLoop_LiveIgnoresAge(st, rest, bareDir, a, fail)
           ELSE IF a.dryRun
           THEN removeLoop_LiveIgnoresAge([st EXCEPT !.results = Append(@, wt.Path),
                                                     !.removed = @ \cup {wt.Path}],
                                          rest, bareDir, a, fail)
           ELSE IF <<"WorktreeRemove", wt.Path>> \in fail
           THEN [st EXCEPT !.results = Append(@, wt.Path), !.removed = @ \cup {wt.Path},
                           !.err = "WorktreeRemove", !.log = @ \o <<rmOp("err")>>]
           ELSE removeLoop_LiveIgnoresAge([st EXCEPT !.w = RemovedWorktree(@, bareDir, wt.Path),
                                                     !.results = Append(@, wt.Path),
                                                     !.removed = @ \cup {wt.Path},
                                                     !.log = @ \o <<rmOp("ok")>>],
                                          rest, bareDir, a, fail)

(* variant: a worktree that os.Stat cannot read is removed *)
RECURSIVE removeLoop_StatErrorRemoves(_, _, _, _, _)
removeLoop_StatErrorRemoves(st, worktrees, bareDir, a, fail) ==
  IF worktrees = <<>> \/ st.err # "" THEN st
  ELSE LET wt == Head(worktrees)
           rest == Tail(worktrees)
           statOK == pathExists(st.w, wt.Path) /\ <<"Stat", wt.Path>> \notin fail
           shouldRemove ==
             IF a.removeAll THEN TRUE
             ELSE ~statOK \/ (wt.Path \in DOMAIN st.w.mtime
                                /\ a.now - st.w.mtime[wt.Path] >= a.ttl)
           rmOp(res) == Op("WorktreeRemove", bareDir, <<wt.Path, TRUE>>, res)
       IN  IF wt.Path = bareDir THEN removeLoop_StatErrorRemoves(st, rest, bareDir, a, fail)
           ELSE IF ~shouldRemove THEN removeLoop_StatErrorRemoves(st, rest, bareDir, a, fail)
           ELSE IF a.dryRun
           THEN removeLoop_StatErrorRemoves([st EXCEPT !.results = Append(@, wt.Path),
                                      !.removed = @ \cup {wt.Path}],
                           rest, bareDir, a, fail)
           ELSE IF <<"WorktreeRemove", wt.Path>> \in fail
           THEN [st EXCEPT !.results = Append(@, wt.Path), !.removed = @ \cup {wt.Path},
                           !.err = "WorktreeRemove", !.log = @ \o <<rmOp("err")>>]
           ELSE removeLoop_StatErrorRemoves([st EXCEPT !.w = RemovedWorktree(@, bareDir, wt.Path),
                                      !.results = Append(@, wt.Path),
                                      !.removed = @ \cup {wt.Path},
                                      !.log = @ \o <<rmOp("ok")>>],
                           rest, bareDir, a, fail)

(* variant: a worktree is removed only when older than ttl *)
RECURSIVE removeLoop_StrictlyOlder(_, _, _, _, _)
removeLoop_StrictlyOlder(st, worktrees, bareDir, a, fail) ==
  IF worktrees = <<>> \/ st.err # "" THEN st
  ELSE LET wt == Head(worktrees)
           rest == Tail(worktrees)
           statOK == pathExists(st.w, wt.Path) /\ <<"Stat", wt.Path>> \notin fail
           shouldRemove ==
             IF a.removeAll THEN TRUE
             ELSE statOK /\ wt.Path \in DOMAIN st.w.mtime
                         /\ a.now - st.w.mtime[wt.Path] > a.ttl
           rmOp(res) == Op("WorktreeRemove", bareDir, <<wt.Path, TRUE>>, res)
       IN  IF wt.Path = bareDir THEN removeLoop_StrictlyOlder(st, rest, bareDir, a, fail)
           ELSE IF ~shouldRemove THEN removeLoop_StrictlyOlder(st, rest, bareDir, a, fail)
           ELSE IF a.dryRun
           THEN removeLoop_StrictlyOlder([st EXCEPT !.results = Append(@, wt.Path),
                                      !.removed = @ \cup {wt.Path}],
                           rest, bareDir, a, fail)
           ELSE IF <<"WorktreeRemove", wt.Path>> \in fail
           THEN [st EXCEPT !.results = Append(@, wt.Path), !.removed = @ \cup {wt.Path},
                           !.err = "WorktreeRemove", !.log = @ \o <<rmOp("err")>>]
           ELSE removeLoop_StrictlyOlder([st EXCEPT !.w = RemovedWorktree(@, bareDir, wt.Path),
                                      !.results = Append(@, wt.Path),
                                      !.removed = @ \cup {wt.Path},
                                      !.log = @ \o <<rmOp("ok")>>],
                           rest, bareDir, a, fail)

(* the first loop of cleanBareRepo, over the listing taken at entry *)
RECURSIVE removeLoop(_, _, _, _, _)
removeLoop(st, worktrees, bareDir, a, fail) ==
  IF worktrees = <<>> \/ st.err # "" THEN st
  ELSE LET wt == Head(worktrees)
           rest == Tail(worktrees)
           statOK == pathExists(st.w, wt.Path) /\ <<"Stat", wt.Path>> \notin fail
           shouldRemove ==
             IF a.removeAll THEN TRUE
             ELSE statOK /\ wt.Path \in DOMAIN st.w.mtime
                         /\ a.now - st.w.mtime[wt.Path] >= a.ttl
           rmOp(res) == Op("WorktreeRemove", bareDir, <<wt.Path, TRUE>>, res)
       IN  IF wt.Path = bareDir THEN removeLoop(st, rest, bareDir, a, fail)
           ELSE IF ~shouldRemove THEN removeLoop(st, rest, bareDir, a, fail)
           ELSE IF a.dryRun
           THEN removeLoop([st EXCEPT !.results = Append(@, wt.Path),
                                      !.removed = @ \cup {wt.Path}],
                           rest, bareDir, a, fail)
           ELSE IF <<"WorktreeRemove", wt.Path>> \in fail
           THEN [st EXCEPT !.results = Append(@, wt.Path), !.removed = @ \cup {wt.Path},
                           !.err = "WorktreeRemove", !.log = @ \o <<rmOp("err")>>]
           ELSE removeLoop([st EXCEPT !.w = RemovedWorktree(@, bareDir, wt.Path),
                                      !.results = Append(@, wt.Path),
                                      !.removed = @ \cup {wt.Path},
                                      !.log = @ \o <<rmOp("ok")>>],
                           rest, bareDir, a, fail)

(* variant: the dry-run return before the bare repository removal is missing *)
cleanBareRepo_DryDeletes(st, bareDir, a, fail) ==
  LET listOp(res) == Op("WorktreeList", bareDir, <<>>, res)
  IN  IF <<"WorktreeList", bareDir>> \in fail \/ ~IsGitRepo(st.w, bareDir)
      THEN [st EXCEPT !.err = "WorktreeList", !.log = @ \o <<listOp("err")>>]
      ELSE LET worktrees == WorktreeList(st.w, bareDir)
               s1 == removeLoop([st EXCEPT !.removed = {}, !.log = @ \o <<listOp("ok")>>],
                                worktrees, bareDir, a, fail)
               remaining == Cardinality({i \in 1..Len(worktrees) :
                                           /\ worktrees[i].Path # bareDir
                                           /\ worktrees[i].Path \notin s1.removed})
               rmOp(res) == Op("RemoveAll", bareDir, <<>>, res)
           IN  IF s1.err # "" THEN s1
               ELSE IF remaining # 0 THEN s1
               ELSE [s1 EXCEPT !.w = RemoveAll(@, bareDir), !.log = @ \o <<rmOp("ok")>>]

(* variant: the bare repository is removed whatever remains *)
cleanBareRepo_AlwaysDeletes(st, bareDir, a, fail) ==
  LET listOp(res) == Op("WorktreeList", bareDir, <<>>, res)
  IN  IF <<"WorktreeList", bareDir>> \in fail \/ ~IsGitRepo(st.w, bareDir)
      THEN [st EXCEPT !.err = "WorktreeList", !.log = @ \o <<listOp("err")>>]
      ELSE LET worktrees == WorktreeList(st.w, bareDir)
               s1 == removeLoop([st EXCEPT !.removed = {}, !.log = @ \o <<listOp("ok")>>],
                                worktrees, bareDir, a, fail)
               rmOp(res) == Op("RemoveAll", bareDir, <<>>, res)
           IN  IF s1.err # "" THEN s1
               ELSE IF a.dryRun THEN s1
               ELSE IF <<"RemoveAll", bareDir>> \in fail
               THEN [s1 EXCEPT !.err = "RemoveAll", !.log = @ \o <<rmOp("err")>>]
               ELSE [s1 EXCEPT !.w = RemoveAll(@, bareDir), !.log = @ \o <<rmOp("ok")>>]

cleanBareRepo(st, bareDir, a, fail) ==
  LET listOp(res) == Op("WorktreeList", bareDir, <<>>, res)
  IN  IF <<"WorktreeList", bareDir>> \in fail \/ ~IsGitRepo(st.w, bareDir)
      THEN [st EXCEPT !.err = "WorktreeList", !.log = @ \o <<listOp("err")>>]
      ELSE LET worktrees == WorktreeList(st.w, bareDir)
               s1 == removeLoop([st EXCEPT !.removed = {}, !.log = @ \o <<listOp("ok")>>],
                                worktrees, bareDir, a, fail)
               remaining == Cardinality({i \in 1..Len(worktrees) :
                                           /\ worktrees[i].Path # bareDir
                                           /\ worktrees[i].Path \notin s1.removed})
               rmOp(res) == Op("RemoveAll", bareDir, <<>>, res)
           IN  IF s1.err # "" THEN s1
               ELSE IF a.dryRun THEN s1
               ELSE IF remaining # 0 THEN s1
               ELSE IF <<"RemoveAll", bareDir>> \in fail
               THEN [s1 EXCEPT !.err = "RemoveAll", !.log = @ \o <<rmOp("err")>>]
               ELSE [s1 EXCEPT !.w = RemoveAll(@, bareDir), !.log = @ \o <<rmOp("ok")>>]

(* the paths of the disk that are regular files; every other path of dirs  *)
(* is a directory                                                          *)
RegularFiles == {Join(TempDir, <<"fix", ".git">>)}

IsDir(w, p) == p \in w.dirs /\ p \notin RegularFiles

(* variant: the loop of CleanTemp goes on to the next entry after an error *)
RECURSIVE scanLoop_KeepsGoing(_, _, _, _)
scanLoop_KeepsGoing(st, entries, a, fail) ==
  IF entries = <<>> THEN st
  ELSE IF ~IsDir(st.w, Head(entries)) \/ ~HasSuffix(Head(entries), <<".git">>)
  THEN scanLoop_KeepsGoing(st, Tail(entries), a, fail)
  ELSE scanLoop_KeepsGoing(cleanBareRepo(st, Head(entries), a, fail), Tail(entries), a, fail)

(* variant: every entry of tempDir is taken for a bare repository *)
RECURSIVE scanLoop_EveryEntry(_, _, _, _)
scanLoop_EveryEntry(st, entries, a, fail) ==
  IF entries = <<>> \/ st.err # "" THEN st
  ELSE scanLoop_EveryEntry(cleanBareRepo(st, Head(entries), a, fail), Tail(entries), a, fail)

(* the loop of CleanTemp over the entries os.ReadDir returned *)
RECURSIVE scanLoop(_, _, _, _)
scanLoop(st, entries, a, fail) ==
  IF entries = <<>> \/ st.err # "" THEN st
  ELSE IF ~IsDir(st.w, Head(entries)) \/ ~HasSuffix(Head(entries), <<".git">>)
  THEN scanLoop(st, Tail(entries), a, fail)
  ELSE scanLoop(cleanBareRepo(st, Head(entries), a, fail), Tail(entries), a, fail)

cleanTemp(w, tempDir, a, fail) ==
  LET st0 == CleanState(w, <<>>, {}, "", <<>>)
  IN  IF ~pathExists(w, tempDir) THEN st0
      ELSE IF <<"ReadDir", tempDir>> \in fail THEN [st0 EXCEPT !.err = "ReadDir"]
      ELSE LET st == scanLoop(st0, ReadDir(w, tempDir), a, fail)
           IN  IF st.err # "" THEN [st EXCEPT !.results = <<>>] ELSE st

(* the single failures that can occur in a run: <<operation, target>>, for *)
(* the operations the run can invoke                                       *)
CleanOps(removeAll, dryRun) ==
  {"ReadDir", "WorktreeList"}
    \cup (IF dryRun THEN {} ELSE {"WorktreeRemove", "RemoveAll"})
    \cup (IF removeAll THEN {} ELSE {"Stat"})

BareRepos == {d \in DOMAIN repos : repos[d].bare}

CleanTargets(op) ==
  CASE op = "ReadDir" -> {TempDir} \cap dirs
    [] op \in {"WorktreeList", "RemoveAll"} -> BareRepos
    [] OTHER -> UNION {{repos[d].worktrees[i].Path : i \in 2..Len(repos[d].worktrees)} :
                        d \in BareRepos}

CleanFailures(removeAll, dryRun) ==
  {{}} \cup UNION {{{<<op, p>>} : p \in CleanTargets(op)} : op \in CleanOps(removeAll, dryRun)}

CleanTempRun(ttl, removeAll, dryRun, now, fail) ==
  /\ \A d \in Calls : Finished(d)
  /\ now \in {clock, clock + 1}
  /\ (now # clock => BareRepos # {})
  /\ \E a \in {[ttl |-> ttl, removeAll |-> removeAll, dryRun |-> dryRun, now |-> now]} :
     \E st \in {cleanTemp(World, TempDir, a, fail)} :
           /\ clean' = [pc |-> "done", args |-> a, results |-> st.results, err |-> st.err,
                        log |-> st.log, pre |-> World]
           /\ SetWorld(st.w)
  /\ clock' = now
  /\ frame' = [c \in Calls |-> IdleFrame]
  /\ UNCHANGED opts

CleanTemp(ttl, removeAll, dryRun, now) ==
  \E fail \in CleanFailures(removeAll, dryRun) :
    /\ CleanTempRun(ttl, removeAll, dryRun, now, fail)
    /\ UNCHANGED hist

(* the same call, remembered together with the call before it *)
CleanTempTracked(ttl, removeAll, dryRun, now) ==
  \E fail \in CleanFailures(removeAll, dryRun) :
    /\ CleanTempRun(ttl, removeAll, dryRun, now, fail)
    /\ hist' = [last |-> [pc |-> "done", args |-> clean'.args, results |-> clean'.results,
                          err |-> clean'.err, fail |-> {x \in fail : x[1] = "Stat"},
                          pre |-> World],
                prev |-> IF hist.last.args.dryRun /\ hist.last.err = ""
                         THEN hist.last ELSE NoClean,
                resolved |-> NoResolved]

(***************************************************************************)
(* Initial worlds: what a user's disk can look like before prt runs        *)
(***************************************************************************)
Primary == Join(ProjectsDir, OctoRepo.Name)

Alternate == Join(ProjectsDir, repoSlug(OctoRepo))

BareDir == bareDirOf(TempDir, PR15)

OriginURLs ==
  [match    |-> GitHubURL(<<"octo">>, <<"repo">>),
   upper    |-> GitHubURL(<<"Octo">>, <<"repo">>),
   mismatch |-> GitHubURL(<<"other">>, <<"repo">>),
   extras   |-> GitHubURL(<<"octo">>, <<"repo", "-extras">>),
   prefixed |-> GitHubURL(<<"not", "octo">>, <<"repo">>)]

SshForkURL == <<"git@github.com:", "fork", "/", "repo", ".git">>

Elsewhere(repoDir) == <<"/elsewhere">> \o repoDir

EmptyWorld == [dirs |-> {ProjectsDir}, repos |-> <<>>, mtime |-> <<>>]

WithDir(w, p) == [w EXCEPT !.dirs = @ \cup {p}]

WithRepo(w, dir, kind, bare) ==
  IF kind = "absent" THEN w
  ELSE IF kind = "plain" THEN WithDir(IF bare THEN WithDir(w, TempDir) ELSE w, dir)
  ELSE LET r == ClonedRepo(Empty, dir, bare)
           rem == IF kind = "none" THEN <<>> ELSE (Origin :> OriginURLs[kind])
       IN  [w EXCEPT !.dirs = @ \cup {dir} \cup (IF bare THEN {TempDir} ELSE {}),
                     !.repos = (dir :> [r EXCEPT !.remotes = rem]) @@ @]

ComputedPath(repoDir, pr) ==
  IF repoDir = BareDir
  THEN Join(TempDir, repoSlug(pr.BaseRepo) \o <<"-">> \o worktreeName(pr))
  ELSE Join(repoDir \o <<"-worktrees">>, worktreeName(pr))

Extras == {"none", "stale", "registered", "gone", "foreign", "customRemote", "mainOnFeature"}

WithExtra(w, d, extra) ==
  IF ~IsGitRepo(w, d)
  THEN IF extra = "foreign" /\ d \notin w.dirs
       THEN WithDir(IF d = BareDir THEN WithDir(w, TempDir) ELSE w, ComputedPath(d, PR15))
       ELSE w
  ELSE CASE extra = "stale" ->
              [w EXCEPT !.repos[d].branches = @ \cup {branchRefForPR(pr) : pr \in PRs}]
         [] extra = "registered" ->
              AddedWorktree(w, d, Elsewhere(d), branchRefForPR(PR15), 0)
         [] extra = "gone" ->
              [AddedWorktree(w, d, Elsewhere(d), branchRefForPR(PR15), 0)
                 EXCEPT !.dirs = @ \ {Elsewhere(d)}]
         [] extra = "foreign" ->
              WithDir(WithDir(w, ComputedPath(d, PR15)), ComputedPath(d, PR21))
         [] extra = "customRemote" ->
              AddRemote(w, d, forkRemoteName(PR21), SshForkURL)
         [] extra = "mainOnFeature" ->
              IF w.repos[d].bare THEN w
              ELSE [w EXCEPT !.repos[d].worktrees[1].Branch = RefsHeads \o PR15.HeadRef,
                             !.repos[d].branches = @ \cup {PR15.HeadRef}]
         [] OTHER -> w

PrimaryKinds == {"absent", "plain", "none", "match", "upper", "mismatch", "extras", "prefixed"}

AlternateKinds == {"absent", "plain", "none", "match", "mismatch"}

BareKinds == {"absent", "plain", "match"}

InitialWorld(pk, ak, bk, extra) ==
  LET w1 == WithRepo(EmptyWorld, Primary, pk, FALSE)
      w2 == WithRepo(w1, Alternate, ak, FALSE)
      w3 == WithRepo(w2, BareDir, bk, TRUE)
      w4 == WithExtra(w3, Primary, extra)
      w5 == WithExtra(w4, Alternate, extra)
  IN  WithExtra(w5, BareDir, extra)

(* Options.Temp is drawn once per behaviour: persistent calls only touch   *)
(* ProjectsDir, temporary calls and CleanTemp only TempDir.                *)
InitWith(O) ==
  /\ opts \in O
  /\ \E pk \in PrimaryKinds, ak \in AlternateKinds, bk \in BareKinds, extra \in Extras :
       /\ (pk # "mismatch" => ak = "absent")
       /\ (pk \notin {"absent", "match", "mismatch"} => extra = "none")
       /\ (pk = "mismatch" /\ ak # "match" => extra = "none")
       /\ (opts.Temp => pk = "absent" /\ ak = "absent")
       /\ (~opts.Temp => bk = "absent")
       /\ LET w == InitialWorld(pk, ak, bk, extra)
          IN  /\ dirs = w.dirs
              /\ repos = w.repos
              /\ mtime = w.mtime
  /\ clock = 0
  /\ frame = [c \in Calls |-> IdleFrame]
  /\ clean = IdleClean
  /\ hist = NoHist

(* the command line always builds the resolver with a logger *)
Init == InitWith([Temp : BOOLEAN, Logger : {TRUE}])

Next ==
  \/ \E c \in SeqCalls, pr \in PRs, temp \in BOOLEAN : Resolve(c, pr, temp)
  \/ \E c \in SeqCalls : ResolveStep(c)
  \/ \E removeAll \in BOOLEAN, dryRun \in BOOLEAN, now \in 0..MaxTime :
       CleanTemp(TTL, removeAll, dryRun, now)

Spec == Init /\ [][Next]_vars

(***************************************************************************)
(* Temporary workspaces only, with consecutive CleanTemp calls remembered  *)
(***************************************************************************)
TempStep(c) ==
  \/ MkdirTemp(c)
  \/ EnsureBareRepo(c)
  \/ EnsureRemote(c)
  \/ Lookup(c)
  \/ ReuseFetch(c)
  \/ ReuseReady(c)
  \/ Fetch(c)
  \/ PathCheck(c)
  \/ AddBranch(c)
  \/ Ready(c)

InitTemp == Init /\ opts.Temp

NextClean ==
  \/ \E c \in SeqCalls, pr \in PRs : Resolve(c, pr, TRUE)
  \/ \E c \in SeqCalls : TempStep(c)
  \/ \E removeAll \in BOOLEAN, dryRun \in BOOLEAN, now \in 0..MaxTime :
       CleanTempTracked(TTL, removeAll, dryRun, now)

SpecClean == InitTemp /\ [][NextClean]_vars

(***************************************************************************)
(* Resolve(temp), CleanTemp, Resolve(temp): the CleanTemp call remembers   *)
(* the successful Resolve it follows, the Resolve after it the pair        *)
(***************************************************************************)
LastResolved ==
  IF \E c \in SeqCalls : frame[c].pc = "done" /\ frame[c].err = "" /\ frame[c].temp
  THEN LET c == CHOOSE c \in SeqCalls :
                  frame[c].pc = "done" /\ frame[c].err = "" /\ frame[c].temp
       IN  [ok |-> TRUE, pr |-> frame[c].pr, result |-> frame[c].result]
  ELSE NoResolved

CleanTempAfter(ttl, removeAll, dryRun, now) ==
  \E fail \in CleanFailures(removeAll, dryRun) :
    /\ CleanTempRun(ttl, removeAll, dryRun, now, fail)
    /\ hist' = [NoHist EXCEPT !.resolved = LastResolved]

(* at = "cleaned": the call comes right after a live CleanTemp with        *)
(* removeAll that returned without error (log: its commands) and that      *)
(* itself came right after a successful Resolve(temp) for the same pull    *)
(* request (result)                                                        *)
CleanedOf(pr) ==
  IF /\ clean.pc = "done" /\ clean.err = ""
     /\ clean.args.removeAll /\ ~clean.args.dryRun
     /\ hist.resolved.ok /\ hist.resolved.pr = pr
  THEN [partial |-> FALSE, at |-> "cleaned", pre |-> clean.pre,
        result |-> hist.resolved.result, log |-> clean.log]
  ELSE NoPrior

ResolveAfterClean(c, pr) == ResolveCall(c, pr, TRUE, CleanedOf(pr))

NextRound ==
  \/ \E c \in SeqCalls, pr \in PRs : ResolveAfterClean(c, pr)
  \/ \E c \in SeqCalls : TempStep(c)
  \/ \E removeAll \in BOOLEAN, dryRun \in BOOLEAN, now \in 0..MaxTime :
       CleanTempAfter(TTL, removeAll, dryRun, now)

SpecRound == InitTemp /\ [][NextRound]_vars

(* Resolve on a resolver built with or without a logger                    *)
(* (ResolverOptions{Logger: logger} or ResolverOptions{})                  *)
InitLogger == InitWith([Temp : BOOLEAN, Logger : BOOLEAN])

NextLogger ==
  \/ \E c \in SeqCalls, pr \in PRs, temp \in BOOLEAN : Resolve(c, pr, temp)
  \/ \E c \in SeqCalls : ResolveStep(c)

SpecLogger == InitLogger /\ [][NextLogger]_vars

(* sequences of Resolve calls, each knowing whether it follows a failure *)
NextRecover ==
  \/ \E c \in SeqCalls, pr \in PRs, temp \in BOOLEAN : ResolveTracked(c, pr, temp)
  \/ \E c \in SeqCalls : ResolveStep(c)

SpecRecover == Init /\ [][NextRecover]_vars

(***************************************************************************)
(* Sequences of Resolve calls, a call knowing the successful call it       *)
(* repeats                                                                 *)
(***************************************************************************)
NextRepeat ==
  \/ \E c \in SeqCalls, pr \in PRs, temp \in BOOLEAN : ResolveRepeated(c, pr, temp)
  \/ \E c \in SeqCalls : ResolveStep(c)

SpecRepeat == Init /\ [][NextRepeat]_vars

(***************************************************************************)
(* Two uncoordinated Resolve calls for one pull request.  Each GitClient   *)
(* command and each os call is one step; the reads at the head of          *)
(* ensureRepo, ensureBareRepo and ensureRemote form one step and the       *)
(* command they lead to (git clone, git remote add) the next, so the other *)
(* call can run in between.  git clone refuses a populated destination and *)
(* git remote add an existing name.                                        *)
(***************************************************************************)
ResolveConc(c, pr, temp) ==
  /\ frame[c].pc = "idle"
  /\ \A d \in Calls \ {c} : frame[d].pc # "idle" => frame[d].pr = pr
  /\ temp = opts.Temp
  /\ frame' = [frame EXCEPT ![c] =
                 [IdleFrame EXCEPT !.pc = IF temp THEN "mkdirTemp" ELSE "resolveRepoDir",
                                   !.pr = pr, !.temp = temp, !.pre = World]]
  /\ UNCHANGED <<opts, dirs, repos, mtime, clock, clean, hist>>

(* ensureRepo up to the command that changes the repository *)
RepoCheck(c) ==
  /\ frame[c].pc = "ensureRepo"
  /\ \E fail \in SUBSET {"IsGitRepo", "HasRemote"} :
       LET f == frame[c]
           isRepoOp(res) == Op("IsGitRepo", f.repoDir, <<>>, res)
           hasOp(res) == Op("HasRemote", f.repoDir, <<Origin>>, res)
       IN  frame' = [frame EXCEPT ![c] =
                       IF ~pathExists(World, f.repoDir) THEN Goto(f, "clone", <<>>)
                       ELSE IF "IsGitRepo" \in fail
                       THEN Fail(f, "IsGitRepo", <<isRepoOp("err")>>)
                       ELSE IF ~IsGitRepo(World, f.repoDir)
                       THEN Fail(f, "NotARepository", <<isRepoOp("false")>>)
                       ELSE IF "HasRemote" \in fail
                       THEN Fail(f, "HasRemote", <<isRepoOp("true"), hasOp("err")>>)
                       ELSE IF ~HasRemote(World, f.repoDir, Origin)
                       THEN Goto(f, "addOrigin", <<isRepoOp("true"), hasOp("false")>>)
                       ELSE Goto(f, AfterRepo(f), <<isRepoOp("true"), hasOp("true")>>)]
  /\ UNCHANGED <<opts, dirs, repos, mtime, clock, clean, hist>>

(* git clone / git clone --bare *)
RepoClone(c) ==
  /\ frame[c].pc \in {"clone", "cloneBare"}
  /\ \E failed \in BOOLEAN :
       LET f == frame[c]
           bare == f.pc = "cloneBare"
           name == IF bare THEN "CloneBare" ELSE "Clone"
           cloneOp(res) == Op(name, f.repoDir, <<f.pr.BaseRepo.CloneURL>>, res)
       IN  IF failed \/ Populated(World, f.repoDir)
           THEN /\ frame' = [frame EXCEPT ![c] = Fail(f, name, <<cloneOp("err")>>)]
                /\ UNCHANGED <<dirs, repos, mtime>>
           ELSE /\ frame' = [frame EXCEPT ![c] =
                               Goto(f, IF bare THEN "bareConfig" ELSE AfterRepo(f),
                                    <<cloneOp("ok")>>)]
                /\ SetWorld(Clone(World, f.pr.BaseRepo.CloneURL, f.repoDir, bare))
  /\ UNCHANGED <<opts, clock, clean, hist>>

(* git remote add: origin in ensureRepo, the fork remote in ensureRemote *)
RemoteAdd(c) ==
  /\ frame[c].pc \in {"addOrigin", "addRemote"}
  /\ \E failed \in BOOLEAN :
       LET f == frame[c]
           origin == f.pc = "addOrigin"
           name == IF origin THEN Origin ELSE forkRemoteName(f.pr)
           url == IF origin THEN f.pr.BaseRepo.CloneURL ELSE f.pr.HeadRepo.CloneURL
           addOp(res) == Op("AddRemote", f.repoDir, <<name, url>>, res)
       IN  IF failed \/ HasRemote(World, f.repoDir, name)
           THEN /\ frame' = [frame EXCEPT ![c] = Fail(f, "AddRemote", <<addOp("err")>>)]
                /\ UNCHANGED <<dirs, repos, mtime>>
           ELSE /\ frame' = [frame EXCEPT ![c] =
                               Goto(f, IF origin THEN AfterRepo(f) ELSE "lookup",
                                    <<addOp("ok")>>)]
                /\ SetWorld(AddRemote(World, f.repoDir, name, url))
  /\ UNCHANGED <<opts, clock, clean, hist>>

(* ensureBareRepo up to git clone --bare or the ConfigSet *)
BareCheck(c) ==
  /\ frame[c].pc = "ensureBareRepo"
  /\ \E failed \in BOOLEAN :
       LET f == frame[c]
           isRepoOp(res) == Op("IsGitRepo", f.repoDir, <<>>, res)
       IN  frame' = [frame EXCEPT ![c] =
                       IF ~pathExists(World, f.repoDir) THEN Goto(f, "cloneBare", <<>>)
                       ELSE IF failed THEN Fail(f, "IsGitRepo", <<isRepoOp("err")>>)
                       ELSE IF ~IsGitRepo(World, f.repoDir)
                       THEN Fail(f, "NotARepository", <<isRepoOp("false")>>)
                       ELSE Goto(f, "bareConfig", <<isRepoOp("true")>>)]
  /\ UNCHANGED <<opts, dirs, repos, mtime, clock, clean, hist>>

(* the ConfigSet that ends ensureBareRepo *)
BareConfig(c) ==
  /\ frame[c].pc = "bareConfig"
  /\ \E failed \in BOOLEAN :
       LET f == frame[c]
           cfgOp(res) == Op("ConfigSet", f.repoDir,
                            <<<<"remote.origin.fetch">>, FetchAllHeads>>, res)
       IN  frame' = [frame EXCEPT ![c] =
                       IF failed THEN Fail(f, "ConfigSet", <<cfgOp("err")>>)
                       ELSE Goto(f, AfterRepo(f), <<cfgOp("ok")>>)]
  /\ UNCHANGED <<opts, dirs, repos, mtime, clock, clean, hist>>

(* ensureRemote up to git remote add *)
RemoteCheck(c) ==
  /\ frame[c].pc = "ensureRemote"
  /\ \E failed \in BOOLEAN :
       LET f == frame[c]
           hasOp(res) == Op("HasRemote", f.repoDir, <<forkRemoteName(f.pr)>>, res)
       IN  frame' = [frame EXCEPT ![c] =
                       IF failed THEN Fail(f, "HasRemote", <<hasOp("err")>>)
                       ELSE IF ~HasRemote(World, f.repoDir, forkRemoteName(f.pr))
                       THEN Goto(f, "addRemote", <<hasOp("false")>>)
                       ELSE Goto(f, "lookup", <<hasOp("true")>>)]
  /\ UNCHANGED <<opts, dirs, repos, mtime, clock, clean, hist>>

ConcStep(c) ==
  \/ ResolveRepoDir(c)
  \/ RepoCheck(c)
  \/ RepoClone(c)
  \/ RemoteAdd(c)
  \/ MkdirTemp(c)
  \/ BareCheck(c)
  \/ BareConfig(c)
  \/ RemoteCheck(c)
  \/ Lookup(c)
  \/ ReuseFetch(c)
  \/ ReuseReady(c)
  \/ Fetch(c)
  \/ MkdirRoot(c)
  \/ PathCheck(c)
  \/ AddBranch(c)
  \/ RetryAddBranch(c)
  \/ Ready(c)

ConcWorlds ==
  {InitialWorld(k[1], k[2], k[3], k[4]) :
     k \in {<<"absent", "absent", "absent", "none">>,
            <<"match", "absent", "absent", "stale">>,
            <<"match", "absent", "absent", "registered">>,
            <<"mismatch", "none", "absent", "none">>,
            <<"absent", "absent", "match", "none">>,
            <<"absent", "absent", "match", "registered">>}}

InitConc == Init /\ World \in ConcWorlds

NextConc ==
  \/ \E c \in Calls, pr \in PRs, temp \in BOOLEAN : ResolveConc(c, pr, temp)
  \/ \E c \in Calls : ConcStep(c)

SpecConc == InitConc /\ [][NextConc]_vars

(* Resolve for pull requests that include one whose head repository is     *)
(* spelled Octo/repo where the base is octo/repo                           *)
PR15Upper ==
  PRMetadata("15", <<"feature">>, OctoRepo,
             Repository(<<"Octo">>, <<"repo">>, GitHubURL(<<"Octo">>, <<"repo">>)))

NextSame ==
  \/ \E c \in SeqCalls, pr \in PRs \cup {PR15Upper}, temp \in BOOLEAN : Resolve(c, pr, temp)
  \/ \E c \in SeqCalls : ResolveStep(c)

SpecSame == Init /\ [][NextSame]_vars

(***************************************************************************)
(* worktreeName on head refs spelled character by character                *)
(***************************************************************************)
MaxRefLen == 4

Chars == {"a", "/", " ", ".", "\t"}

HeadRefs == UNION {[1..n -> Chars] : n \in 0..MaxRefLen}

InitNames ==
  /\ opts = [Temp |-> FALSE, Logger |-> TRUE]
  /\ dirs = EmptyWorld.dirs /\ repos = EmptyWorld.repos /\ mtime = EmptyWorld.mtime
  /\ clock = 0
  /\ \E h \in HeadRefs :
       frame = [c \in Calls |->
                  IF c \in SeqCalls
                  THEN [IdleFrame EXCEPT !.pr = PRMetadata("15", h, OctoRepo, OctoRepo)]
                  ELSE IdleFrame]
  /\ clean = IdleClean
  /\ hist = NoHist

(* worktreeName(pr), as evaluated for filepath.Join(worktreeRoot, ...) *)
NameWorktree(c) ==
  /\ frame[c].pc = "idle"
  /\ frame' = [frame EXCEPT ![c] =
                 [frame[c] EXCEPT !.pc = "named", !.path = worktreeName(frame[c].pr)]]
  /\ UNCHANGED <<opts, dirs, repos, mtime, clock, clean, hist>>

NextNames == \E c \in SeqCalls : NameWorktree(c)

SpecNames == InitNames /\ [][NextNames]_vars

(***************************************************************************)
(* branchMatches on pairs of refs built from refs/heads/ and two names:    *)
(* call A compares (ref, branch), call B the same pair the other way round *)
(***************************************************************************)
MaxRefParts == 3

RefParts == {"refs/heads/", "main", "x"}

Refs == UNION {[1..n -> RefParts] : n \in 0..MaxRefParts}

InitMatch ==
  /\ opts = [Temp |-> FALSE, Logger |-> TRUE]
  /\ dirs = EmptyWorld.dirs /\ repos = EmptyWorld.repos /\ mtime = EmptyWorld.mtime
  /\ clock = 0
  /\ \E ref \in Refs, branch \in Refs :
       frame = [c \in Calls |->
                  IF c \in SeqCalls
                  THEN [IdleFrame EXCEPT !.path = ref, !.pr.HeadRef = branch]
                  ELSE [IdleFrame EXCEPT !.path = branch, !.pr.HeadRef = ref]]
  /\ clean = IdleClean
  /\ hist = NoHist

(* branchMatches(wt.Branch, branch), as evaluated in HasWorktreeForBranch *)
MatchBranch(c) ==
  /\ frame[c].pc = "idle"
  /\ frame' = [frame EXCEPT ![c] =
                 [frame[c] EXCEPT !.pc = "matched",
                                  !.result.Reused = branchMatches(frame[c].path,
                                                                  frame[c].pr.HeadRef)]]
  /\ UNCHANGED <<opts, dirs, repos, mtime, clock, clean, hist>>

NextMatch == \E c \in Calls : MatchBranch(c)

SpecMatch == InitMatch /\ [][NextMatch]_vars

(***************************************************************************)
(* WorktreeList on the output of git worktree list --porcelain: the        *)
(* repository holds up to MaxGroups worktrees, git prints one group of     *)
(* lines for each, the client parses the text                              *)
(***************************************************************************)
MaxGroups == 2

ListedDir == Join(ProjectsDir, <<"repo">>)

ListedPaths == {<<"/repo">>, <<"/my", " ", "repo">>, <<"/repo", " ">>}

ListedBranches == {Empty, MainRef, <<"refs/heads/", "pr/15/feature">>}

Listings ==
  UNION {[1..n -> [Path : ListedPaths, Branch : ListedBranches]] : n \in 0..MaxGroups}

(* the lines git prints for one worktree: HEAD line and blank line optional, *)
(* no branch line for a detached worktree                                   *)
GroupLines(wt, head, blank) ==
  <<"worktree ">> \o wt.Path \o <<"\n">>
    \o (IF head THEN <<"HEAD ", "abc", "\n">> ELSE <<>>)
    \o (IF wt.Branch # Empty THEN <<"branch ">> \o wt.Branch \o <<"\n">>
        ELSE IF head THEN <<"detached", "\n">> ELSE <<>>)
    \o (IF blank THEN <<"\n">> ELSE <<>>)

RECURSIVE Porcelain(_, _, _)
Porcelain(worktrees, heads, blanks) ==
  IF worktrees = <<>> THEN Empty
  ELSE GroupLines(Head(worktrees), Head(heads), Head(blanks))
         \o Porcelain(Tail(worktrees), Tail(heads), Tail(blanks))

InitParse ==
  /\ opts = [Temp |-> FALSE, Logger |-> TRUE]
  /\ \E worktrees \in Listings :
       /\ dirs = {ProjectsDir, ListedDir}
       /\ repos = (ListedDir :> [ClonedRepo(Empty, ListedDir, FALSE)
                                   EXCEPT !.worktrees = worktrees])
  /\ mtime = EmptyWorld.mtime
  /\ clock = 0
  /\ frame = [c \in Calls |-> IdleFrame]
  /\ clean = IdleClean
  /\ hist = NoHist

(* Client.WorktreeList: run git, parse what it printed; the runner hands   *)
(* over the output with or without its surrounding white space             *)
ParseListing(c) ==
  /\ frame[c].pc = "idle"
  /\ \E heads \in [1..Len(repos[ListedDir].worktrees) -> BOOLEAN],
        blanks \in [1..Len(repos[ListedDir].worktrees) -> BOOLEAN],
        trimmed \in BOOLEAN :
       LET printed == Porcelain(repos[ListedDir].worktrees, heads, blanks)
           output == IF trimmed THEN TrimSpace(printed) ELSE printed
       IN  frame' = [frame EXCEPT ![c] =
                       [frame[c] EXCEPT
                          !.pc = "listed",
                          !.repoDir = ListedDir,
                          !.log = <<Op("WorktreeList", ListedDir, output,
                                       parseWorktreeList(output))>>]]
  /\ UNCHANGED <<opts, dirs, repos, mtime, clock, clean, hist>>

NextParse == \E c \in SeqCalls : ParseListing(c)

SpecParse == InitParse /\ [][NextParse]_vars

(***************************************************************************)
(* WorktreeAddBranch over a runner that prints a given text and fails or   *)
(* not, as the fakeRunner of the tests: printed holds the text, err the    *)
(* runner's error, temp the force flag                                     *)
(***************************************************************************)
MaxOutLen == 4

OutWords == {"fatal:", "already", " ", "exists"}

Outputs == UNION {[1..n -> OutWords] : n \in 0..MaxOutLen}

ExitStatus == "exit status 128"

InitAdd ==
  /\ opts = [Temp |-> FALSE, Logger |-> TRUE]
  /\ dirs = EmptyWorld.dirs /\ repos = EmptyWorld.repos /\ mtime = EmptyWorld.mtime
  /\ clock = 0
  /\ \E output \in Outputs, runErr \in {"", ExitStatus}, force \in BOOLEAN :
       frame = [c \in Calls |->
                  [IdleFrame EXCEPT !.printed = output, !.err = runErr, !.temp = force]]
  /\ clean = IdleClean
  /\ hist = NoHist

RunAddBranch(c) ==
  /\ frame[c].pc = "idle"
  /\ LET f == frame[c]
         res == addBranchError(f.printed, f.err # "", f.temp)
     IN  frame' = [frame EXCEPT ![c] =
                     [f EXCEPT !.pc = "added",
                               !.err = res,
                               !.log = <<Op("WorktreeAddBranch", Empty,
                                            <<f.printed, f.err # "", f.temp>>, res)>>]]
  /\ UNCHANGED <<opts, dirs, repos, mtime, clock, clean, hist>>

NextAdd == \E c \in SeqCalls : RunAddBranch(c)

SpecAdd == InitAdd /\ [][NextAdd]_vars

(***************************************************************************)
(* Vocabulary of the properties                                            *)
(***************************************************************************)
Done(c) == frame[c].pc = "done"

OpsOf(f, name) == {i \in 1..Len(f.log) : f.log[i].op = name}

Adds(f) == OpsOf(f, "WorktreeAddBranch")

(* the statements before the reuse check of resolvePersistent / resolveTemp *)
RepoSteps == {"resolveRepoDir", "ensureRepo", "mkdirTemp", "ensureBareRepo"}

(* the call got past ensureRepo / ensureBareRepo *)
RepoEnsured(f) ==
  /\ f.pc \notin RepoSteps \cup {"idle"}
  /\ f.at \notin RepoSteps

(* a worktree was registered for the PR's branch in the resolved           *)
(* repository when the call began; a repository cloned by the call has     *)
(* none                                                                    *)
RegisteredBefore(f) ==
  /\ IsGitRepo(f.pre, f.repoDir)
  /\ BranchClaimed(f.pre, f.repoDir, branchRefForPR(f.pr))

RegisteredPath(f) ==
  LET wts == f.pre.repos[f.repoDir].worktrees
      i == CHOOSE k \in 1..Len(wts) : wts[k].Branch = RefsHeads \o branchRefForPR(f.pr)
  IN  wts[i].Path

Min(S) == CHOOSE x \in S : \A y \in S : x <= y

AddSeq(f) == SelectSeq(f.log, LAMBDA o : o.op = "WorktreeAddBranch")

Failed(f, names) == {i \in 1..Len(f.log) : f.log[i].op \in names /\ f.log[i].res = "err"}

OnReusePath(f) == \E i \in OpsOf(f, "HasWorktreeForBranch") : f.log[i].res = "found"

(***************************************************************************)
(* C1 (as stated): once the repository is ensured and a worktree is        *)
(* registered for the PR's branch, Resolve returns without error,          *)
(* Reused = TRUE, Path the registered worktree's path, and                 *)
(* WorktreeAddBranch is never invoked.                                     *)
(***************************************************************************)
C1_ReuseAsStated ==
  \A c \in Calls :
    LET f == frame[c]
    IN  Done(c) /\ RepoEnsured(f) /\ RegisteredBefore(f)
        => /\ f.err = ""
           /\ f.result.Reused
           /\ f.result.Path = RegisteredPath(f)
           /\ Adds(f) = {}

(***************************************************************************)
(* C1 (amended): the same, for the calls in which the fork-remote step and *)
(* the worktree lookup itself did not fail.                                *)
(***************************************************************************)
C1_Reuse ==
  \A c \in Calls :
    LET f == frame[c]
    IN  /\ Done(c) /\ RepoEnsured(f) /\ RegisteredBefore(f)
        /\ f.at \notin {"ensureRemote", "lookup"}
        => /\ f.err = ""
           /\ f.result.Reused
           /\ f.result.Path = RegisteredPath(f)
           /\ Adds(f) = {}

C1_Witness ==
  \E c \in Calls :
    LET f == frame[c]
    IN  /\ Done(c) /\ RepoEnsured(f) /\ RegisteredBefore(f)
        /\ f.err = "" /\ f.result.Reused
        /\ f.result.Path = Elsewhere(f.repoDir)

(***************************************************************************)
(* C2: on the reuse path a failed refresh fetch and a failed tracking      *)
(* refresh each become one entry of Result.Warnings, never an error; the   *)
(* result is Reused = TRUE with the existing path, and the tracking        *)
(* refresh is attempted whether or not the fetch failed.                   *)
(***************************************************************************)
TrackingOps == {"SetUpstream", "ConfigSet", "ConfigSetWorktree"}

C2_ReuseWarnings ==
  \A c \in Calls :
    LET f == frame[c]
        failures == Cardinality(Failed(f, {"Fetch"})) + Cardinality(Failed(f, TrackingOps))
    IN  Done(c) /\ OnReusePath(f)
        => /\ f.err = ""
           /\ f.result.Reused
           /\ f.result.Path = f.path
           /\ f.result.RepoDir = f.repoDir
           /\ OpsOf(f, "SetUpstream") # {}
           /\ Len(f.result.Warnings) = failures
           /\ (failures > 0 => f.result.Warnings # <<>>)

C2_Witness ==
  \E c \in Calls :
    LET f == frame[c]
    IN  /\ Done(c) /\ OnReusePath(f)
        /\ Failed(f, {"Fetch"}) # {} /\ Failed(f, TrackingOps) # {}
        /\ Len(f.result.Warnings) = 2
        /\ f.err = ""

(***************************************************************************)
(* C3 (as stated): persistent mode, first WorktreeAddBranch (force=false)  *)
(* fails with BranchExists: exactly one retry, with force=true; if the     *)
(* retry succeeds, Resolve succeeds with Reused = FALSE and exactly one    *)
(* worktree has been created for the branch.                               *)
(***************************************************************************)
StaleBranchCase(f) ==
  /\ ~f.temp
  /\ AddSeq(f) # <<>>
  /\ AddSeq(f)[1].res = "BranchExists"

CreatedFor(f) ==
  {i \in 1..Len(repos[f.repoDir].worktrees) :
     repos[f.repoDir].worktrees[i].Branch = RefsHeads \o branchRefForPR(f.pr)}

CreatedAtPath(f) ==
  \A i \in CreatedFor(f) : repos[f.repoDir].worktrees[i].Path = f.path

OneRetry(f) ==
  /\ Len(AddSeq(f)) = 2
  /\ AddSeq(f)[1].args[4] = FALSE
  /\ AddSeq(f)[2].args[4] = TRUE
  /\ AddSeq(f)[2].args[1] = AddSeq(f)[1].args[1]
  /\ AddSeq(f)[2].args[2] = AddSeq(f)[1].args[2]

C3_StaleBranchAsStated ==
  \A c \in Calls :
    LET f == frame[c]
    IN  Done(c) /\ StaleBranchCase(f)
        => /\ OneRetry(f)
           /\ AddSeq(f)[2].res = ""
              => /\ f.err = ""
                 /\ ~f.result.Reused
                 /\ Cardinality(CreatedFor(f)) = 1
                 /\ CreatedAtPath(f)
                 /\ ~RegisteredBefore(f)

(***************************************************************************)
(* C3 (amended): ... if the retry succeeds, exactly one worktree has been  *)
(* created for the branch, and Resolve succeeds with Reused = FALSE unless *)
(* the tracking configuration that follows fails.                          *)
(***************************************************************************)
C3_StaleBranch ==
  \A c \in Calls :
    LET f == frame[c]
    IN  Done(c) /\ StaleBranchCase(f)
        => /\ OneRetry(f)
           /\ AddSeq(f)[2].res = ""
              => /\ Cardinality(CreatedFor(f)) = 1
                 /\ CreatedAtPath(f)
                 /\ ~RegisteredBefore(f)
                 /\ f.at # "ready" => /\ f.err = ""
                                      /\ ~f.result.Reused
                                      /\ f.result.Path = f.path

C3_Witness ==
  \E c \in Calls :
    LET f == frame[c]
    IN  /\ Done(c) /\ StaleBranchCase(f) /\ OneRetry(f)
        /\ AddSeq(f)[2].res = ""
        /\ f.err = "" /\ ~f.result.Reused
        /\ Cardinality(CreatedFor(f)) = 1

(***************************************************************************)
(* C4: a Resolve call invokes WorktreeAddBranch at most twice; a second    *)
(* invocation only follows a first one that returned BranchExists; any     *)
(* other failure of the first attempt is returned after that one attempt,  *)
(* and a failure of the retry is returned with no third attempt.           *)
(***************************************************************************)
C4_BoundedRetry ==
  \A c \in Calls :
    LET f == frame[c]
        adds == AddSeq(f)
    IN  /\ Len(adds) <= 2
        /\ Len(adds) = 2 => adds[1].res = "BranchExists"
        /\ Len(adds) >= 1 /\ adds[1].res \notin {"", "BranchExists"}
           => /\ Len(adds) = 1
              /\ f.pc = "done" /\ f.err = adds[1].res /\ f.result = ZeroResult
        /\ Len(adds) = 2 /\ adds[2].res # ""
           => f.pc = "done" /\ f.err = adds[2].res /\ f.result = ZeroResult

C4_Witness ==
  \E c \in Calls :
    LET f == frame[c]
    IN  /\ Done(c)
        /\ Len(AddSeq(f)) = 2
        /\ AddSeq(f)[1].res = "BranchExists"
        /\ AddSeq(f)[2].res = "generic"
        /\ f.err = "generic"

(***************************************************************************)
(* C5 (as stated): when no worktree exists for the PR's branch and the     *)
(* head-ref fetch fails, Resolve returns an error and the zero Result, and *)
(* neither WorktreeAddBranch nor any upstream/config write is invoked in   *)
(* that call; a worktree is only created after a successful head fetch of  *)
(* the same call.                                                          *)
(***************************************************************************)
NewFetchFailed(f) == ~OnReusePath(f) /\ Failed(f, {"Fetch"}) # {}

AddsFollowFetch(f) ==
  \A i \in Adds(f) :
    \E j \in 1..(i - 1) : f.log[j].op = "Fetch" /\ f.log[j].res = "ok"

C5_FetchFirstAsStated ==
  \A c \in Calls :
    LET f == frame[c]
    IN  /\ AddsFollowFetch(f)
        /\ Done(c) /\ NewFetchFailed(f)
           => /\ f.err # ""
              /\ f.result = ZeroResult
              /\ Adds(f) = {}
              /\ \A i \in 1..Len(f.log) : f.log[i].op \notin TrackingOps

(***************************************************************************)
(* C5 (amended): the same, except that in temp mode the call has already   *)
(* written remote.origin.fetch of the bare repository (ensureBareRepo)     *)
(* before the fetch; no other upstream/config write is invoked.            *)
(***************************************************************************)
BareBootstrap(f, o) ==
  /\ f.temp
  /\ o.op = "ConfigSet"
  /\ o.dir = bareDirOf(TempDir, f.pr)
  /\ o.args = <<<<"remote.origin.fetch">>, FetchAllHeads>>

C5_FetchFirst ==
  \A c \in Calls :
    LET f == frame[c]
    IN  /\ AddsFollowFetch(f)
        /\ Done(c) /\ NewFetchFailed(f)
           => /\ f.err # ""
              /\ f.result = ZeroResult
              /\ Adds(f) = {}
              /\ \A i \in 1..Len(f.log) :
                   f.log[i].op \in TrackingOps
                   => BareBootstrap(f, f.log[i]) /\ i < Min(Failed(f, {"Fetch"}))

C5_Witness ==
  \E c \in Calls :
    LET f == frame[c]
    IN  /\ Done(c) /\ NewFetchFailed(f)
        /\ f.err = "Fetch"
        /\ f.temp
        /\ OpsOf(f, "ConfigSet") # {}
        /\ Adds(f) = {}

(***************************************************************************)
(* C6: if no worktree is registered for the PR's branch but the computed   *)
(* worktree path already exists on disk, Resolve (either mode) returns an  *)
(* error without invoking WorktreeAddBranch and leaves the path as it was. *)
(***************************************************************************)
PathTaken(f) ==
  /\ f.repoDir # Empty
  /\ ~RegisteredBefore(f)
  /\ worktreePathOf(f) \in f.pre.dirs

EntriesAt(w, d, p) == SelectSeq(w.repos[d].worktrees, LAMBDA e : e.Path = p)

PathKept(f, p) ==
  /\ \A q \in f.pre.dirs : HasPrefix(q, p) => q \in dirs
  /\ \A d \in DOMAIN f.pre.repos :
       /\ d \in DOMAIN repos
       /\ EntriesAt(World, d, p) = EntriesAt(f.pre, d, p)
       /\ HasPrefix(d, p) => repos[d] = f.pre.repos[d]
  /\ p \in DOMAIN f.pre.mtime => p \in DOMAIN mtime /\ mtime[p] = f.pre.mtime[p]

C6_PathCollision ==
  \A c \in Calls :
    LET f == frame[c]
    IN  PathTaken(f)
        => /\ Adds(f) = {}
           /\ PathKept(f, worktreePathOf(f))
           /\ Done(c) => f.err # "" /\ f.result = ZeroResult

C6_Witness ==
  \E c \in Calls :
    LET f == frame[c]
    IN  /\ Done(c) /\ PathTaken(f)
        /\ f.at = "pathCheck" /\ f.err = "PathExists"
        /\ \E i \in 1..Len(f.log) : f.log[i].op = "Fetch" /\ f.log[i].res = "ok"
        /\ worktreePathOf(f) \in dirs

(***************************************************************************)
(* C7: over any sequence of Resolve calls, a remote named                  *)
(* prt/<forkOwner>/<forkRepo> that exists in a repository directory with   *)
(* URL u keeps URL u; AddRemote is invoked for that name only right after  *)
(* HasRemote reported it absent, and SetRemoteURL is never invoked.        *)
(***************************************************************************)
ForkRemoteNames == {forkRemoteName(pr) : pr \in {q \in PRs : isCrossRepo(q)}}

RemotesPreserved ==
  \A d \in DOMAIN repos \cap DOMAIN repos' :
    \A n \in ForkRemoteNames \cap DOMAIN repos[d].remotes :
      /\ n \in DOMAIN repos'[d].remotes
      /\ repos'[d].remotes[n] = repos[d].remotes[n]

AddOnlyWhenAbsent ==
  \A c \in Calls :
    LET f == frame[c]
    IN  \A i \in 1..Len(f.log) :
          /\ f.log[i].op # "SetRemoteURL"
          /\ f.log[i].op = "AddRemote" /\ f.log[i].args[1] \in ForkRemoteNames
             => /\ i > 1
                /\ f.log[i - 1] = Op("HasRemote", f.log[i].dir, <<f.log[i].args[1]>>, "false")
                /\ ~(IsGitRepo(f.pre, f.log[i].dir)
                     /\ HasRemote(f.pre, f.log[i].dir, f.log[i].args[1]))

C7_RemotePreserved == [][RemotesPreserved]_vars /\ []AddOnlyWhenAbsent

C7_Witness ==
  \E c \in Calls :
    LET f == frame[c]
    IN  /\ Done(c) /\ f.err = "" /\ isCrossRepo(f.pr)
        /\ IsGitRepo(f.pre, f.repoDir)
        /\ HasRemote(f.pre, f.repoDir, forkRemoteName(f.pr))
        /\ RemoteURL(f.pre, f.repoDir, forkRemoteName(f.pr)) = SshForkURL
        /\ RemoteURL(World, f.repoDir, forkRemoteName(f.pr)) = SshForkURL
        /\ SshForkURL # f.pr.HeadRepo.CloneURL

(***************************************************************************)
(* C8: over any sequence of non-concurrent Resolve and CleanTemp calls,    *)
(* begun with at most one worktree per branch in each repository           *)
(* directory, each repository directory still has at most one registered   *)
(* worktree per branch.                                                    *)
(***************************************************************************)
C8_OneWorktreePerBranch ==
  \A d \in DOMAIN repos :
    \A i, j \in 1..Len(repos[d].worktrees) :
      /\ repos[d].worktrees[i].Branch # Empty
      /\ repos[d].worktrees[i].Branch = repos[d].worktrees[j].Branch
      => i = j

C8_Witness ==
  \E c \in Calls :
    LET f == frame[c]
    IN  /\ Done(c) /\ f.err = "" /\ ~f.result.Reused
        /\ IsGitRepo(f.pre, f.repoDir)
        /\ branchRefForPR(f.pr) \in f.pre.repos[f.repoDir].branches
        /\ Len(repos[f.repoDir].worktrees) = Len(f.pre.repos[f.repoDir].worktrees) + 1

(***************************************************************************)
(* C9: resolveRepoDir returns <projectsDir>/<repoName> only if that path   *)
(* does not exist or is a repository whose origin URL identifies exactly   *)
(* the target owner/name (case-insensitively); if the path exists and is   *)
(* not a repository, has no readable origin, or has an origin naming any   *)
(* other repository, it returns <projectsDir>/<owner>-<repoName>.          *)
(***************************************************************************)
UrlHosts == {<<"https://github.com/">>, <<"git@github.com:">>}

IdentifiesRepo(url, repo) ==
  \E host \in UrlHosts, suffix \in {Empty, <<".git">>} :
    ToLower(url) = host \o ToLower(repo.Owner) \o <<"/">> \o ToLower(repo.Name) \o suffix

PrimaryOf(f) == Join(ProjectsDir, f.pr.BaseRepo.Name)

AlternateOf(f) == Join(ProjectsDir, repoSlug(f.pr.BaseRepo))

OriginRead(f) ==
  \E i \in 1..Len(f.log) : f.log[i] = Op("OriginURL", PrimaryOf(f), <<>>, "ok")

NamesTarget(f) ==
  /\ IsGitRepo(f.pre, PrimaryOf(f))
  /\ HasRemote(f.pre, PrimaryOf(f), Origin)
  /\ IdentifiesRepo(RemoteURL(f.pre, PrimaryOf(f), Origin), f.pr.BaseRepo)

C9_RepoDirSelection ==
  \A c \in Calls :
    LET f == frame[c]
    IN  ~f.temp /\ f.repoDir # Empty
        => /\ f.repoDir \in {PrimaryOf(f), AlternateOf(f)}
           /\ f.repoDir = PrimaryOf(f)
              => PrimaryOf(f) \notin f.pre.dirs \/ (NamesTarget(f) /\ OriginRead(f))
           /\ PrimaryOf(f) \in f.pre.dirs /\ ~(NamesTarget(f) /\ OriginRead(f))
              => f.repoDir = AlternateOf(f)

(***************************************************************************)
(* C10: when <projectsDir>/<repoName> exists but directory resolution      *)
(* rejects it, no operation of that Resolve call mutates it: no Clone,     *)
(* AddRemote, Fetch, ConfigSet, SetUpstream or worktree creation targets   *)
(* it, it is not deleted, and those operations target the fallback         *)
(* directory instead.                                                      *)
(***************************************************************************)
RepoOps == {"Clone", "AddRemote", "Fetch", "ConfigSet", "WorktreeAddBranch"}

WorktreeOps == {"SetUpstream", "ConfigSetWorktree"}

PrimaryRejected(f) ==
  /\ ~f.temp
  /\ PrimaryOf(f) \in f.pre.dirs
  /\ f.repoDir = AlternateOf(f)

Untouched(f, d) ==
  /\ \A q \in f.pre.dirs : HasPrefix(q, d) => q \in dirs
  /\ IsGitRepo(f.pre, d) => IsGitRepo(World, d) /\ repos[d] = f.pre.repos[d]
  /\ ~IsGitRepo(f.pre, d) => ~IsGitRepo(World, d)

C10_RejectedUntouched ==
  \A c \in Calls :
    LET f == frame[c]
    IN  PrimaryRejected(f)
        => /\ Untouched(f, PrimaryOf(f))
           /\ \A i \in 1..Len(f.log) :
                /\ f.log[i].op \in RepoOps => f.log[i].dir = AlternateOf(f)
                /\ f.log[i].op \in WorktreeOps
                   => /\ ~HasPrefix(f.log[i].dir, PrimaryOf(f))
                      /\ \E k \in 1..Len(repos[AlternateOf(f)].worktrees) :
                           repos[AlternateOf(f)].worktrees[k].Path = f.log[i].dir
                /\ f.log[i].op = "MkdirAll" => ~HasPrefix(f.log[i].dir, PrimaryOf(f))

C10_Witness ==
  \E c \in Calls :
    LET f == frame[c]
    IN  /\ Done(c) /\ f.err = "" /\ PrimaryRejected(f)
        /\ IsGitRepo(f.pre, PrimaryOf(f))
        /\ HasRemote(f.pre, PrimaryOf(f), Origin)
        /\ ~IsGitRepo(f.pre, AlternateOf(f))
        /\ \E i \in 1..Len(f.log) : f.log[i].op = "Clone" /\ f.log[i].dir = AlternateOf(f)
        /\ Adds(f) # {}
        /\ repos[PrimaryOf(f)] = f.pre.repos[PrimaryOf(f)]

(***************************************************************************)
(* C11: CleanTemp with dryRun = TRUE mutates nothing: it never invokes     *)
(* WorktreeRemove and never deletes a bare repository directory; two       *)
(* consecutive dry runs over an unchanged state (same listing, same ages   *)
(* relative to ttl) return identical candidate lists.                      *)
(***************************************************************************)
Range(q) == {q[i] : i \in 1..Len(q)}

CleanDone == clean.pc = "done"

SameAges(w, a, b) ==
  \A q \in DOMAIN w.mtime : (a.now - w.mtime[q] >= a.ttl) <=> (b.now - w.mtime[q] >= b.ttl)

SameRun(l, p) ==
  /\ l.args.removeAll = p.args.removeAll
  /\ l.fail = p.fail
  /\ SameAges(p.pre, l.args, p.args)

C11_DryRunPure ==
  /\ CleanDone /\ clean.args.dryRun
     => /\ World = clean.pre
        /\ \A i \in 1..Len(clean.log) : clean.log[i].op \notin {"WorktreeRemove", "RemoveAll"}
  /\ /\ hist.last.pc = "done" /\ hist.last.args.dryRun /\ hist.last.err = ""
     /\ hist.prev.pc = "done"
     /\ SameRun(hist.last, hist.prev)
     => hist.last.results = hist.prev.results

C11_Witness ==
  /\ hist.last.pc = "done" /\ hist.last.args.dryRun /\ hist.last.err = ""
  /\ hist.prev.pc = "done"
  /\ SameRun(hist.last, hist.prev)
  /\ hist.last.args.now # hist.prev.args.now
  /\ hist.last.results # <<>>
  /\ hist.last.results = hist.prev.results
  /\ \A q \in Range(hist.last.results) : q \in dirs

(***************************************************************************)
(* C12: CleanTemp with dryRun = FALSE, run on the same state as a          *)
(* preceding dry run, force-removes exactly the worktree paths the dry run *)
(* reported and returns the same list; worktrees not reported remain       *)
(* registered and on disk.                                                 *)
(***************************************************************************)
RemoveOps == {i \in 1..Len(clean.log) : clean.log[i].op = "WorktreeRemove"}

Registered(w, q) ==
  \E d \in DOMAIN w.repos : \E i \in 1..Len(w.repos[d].worktrees) :
    w.repos[d].worktrees[i].Path = q

NotReportedKept(w, reported) ==
  \A d \in DOMAIN w.repos : \A i \in 1..Len(w.repos[d].worktrees) :
    LET q == w.repos[d].worktrees[i].Path
    IN  w.repos[d].bare /\ q # d /\ q \notin reported
        => /\ IsGitRepo(World, d)
           /\ \E k \in 1..Len(repos[d].worktrees) : repos[d].worktrees[k] = w.repos[d].worktrees[i]
           /\ q \in w.dirs => q \in dirs

LiveAfterDry ==
  /\ CleanDone
  /\ hist.last.pc = "done" /\ ~hist.last.args.dryRun
  /\ hist.prev.pc = "done"
  /\ SameRun(hist.last, hist.prev)

C12_LiveRemovesReported ==
  LiveAfterDry
  => /\ \A i \in RemoveOps :
          /\ clean.log[i].args[1] \in Range(hist.prev.results)
          /\ clean.log[i].args[2] = TRUE
     /\ NotReportedKept(hist.last.pre, Range(hist.prev.results))
     /\ clean.err = ""
        => /\ clean.results = hist.prev.results
           /\ {clean.log[i].args[1] : i \in RemoveOps} = Range(hist.prev.results)
           /\ \A q \in Range(hist.prev.results) : q \notin dirs /\ ~Registered(World, q)

C12_Witness ==
  /\ LiveAfterDry
  /\ clean.err = ""
  /\ clean.results # <<>>
  /\ clean.results = hist.prev.results
  /\ \E d \in DOMAIN repos : \E i \in 1..Len(repos[d].worktrees) :
       /\ repos[d].bare
       /\ repos[d].worktrees[i].Path # d
       /\ repos[d].worktrees[i].Path \in dirs

(***************************************************************************)
(* C13: in a live CleanTemp run a scanned bare repository directory is     *)
(* deleted if and only if no worktree other than its own listing entry     *)
(* remains registered under it after the removals of that run; when a      *)
(* worktree was kept the directory is left in place.                       *)
(***************************************************************************)
ScannedRepos ==
  {clean.log[i].dir : i \in {k \in 1..Len(clean.log) :
                               clean.log[k].op = "WorktreeList" /\ clean.log[k].res = "ok"}}

RemovedPaths ==
  {clean.log[i].args[1] : i \in {k \in RemoveOps : clean.log[k].res = "ok"}}

KeptUnder(d) ==
  {i \in 1..Len(clean.pre.repos[d].worktrees) :
     /\ clean.pre.repos[d].worktrees[i].Path # d
     /\ clean.pre.repos[d].worktrees[i].Path \notin RemovedPaths}

C13_BareRepoRemoval ==
  CleanDone /\ ~clean.args.dryRun
  => \A d \in ScannedRepos :
       /\ KeptUnder(d) # {} => d \in dirs /\ IsGitRepo(World, d)
       /\ d \notin dirs => KeptUnder(d) = {} /\ ~IsGitRepo(World, d)
       /\ clean.err = "" /\ KeptUnder(d) = {} => d \notin dirs /\ ~IsGitRepo(World, d)

C13_Witness ==
  /\ CleanDone /\ ~clean.args.dryRun /\ ~clean.args.removeAll
  /\ clean.err = ""
  /\ clean.results # <<>>
  /\ \E d \in ScannedRepos : d \notin dirs /\ KeptUnder(d) = {}

(***************************************************************************)
(* C14 (as stated): the temporary strategy takes the same reuse / fetch /  *)
(* create / retry decisions as the persistent one for the same responses   *)
(* of the VCS operations; in particular it first attempts the creation     *)
(* with force = FALSE and uses force = TRUE only in a single retry after   *)
(* BranchExists.                                                           *)
(***************************************************************************)
DecisionOps ==
  {"HasWorktreeForBranch", "Fetch", "WorktreeAddBranch", "SetUpstream", "ConfigSet",
   "ConfigSetWorktree"}

LookupAt(f) == Min(OpsOf(f, "HasWorktreeForBranch"))

Decisions(f) ==
  LET tail == SubSeq(f.log, LookupAt(f), Len(f.log))
      kept == SelectSeq(tail, LAMBDA o : o.op \in DecisionOps)
  IN  [i \in 1..Len(kept) |-> <<kept[i].op, kept[i].res>>]

(* a BranchExists answer followed by the retry counts as the retry's answer *)
Collapse(d) ==
  LET drop == {i \in 1..(Len(d) - 1) :
                 d[i] = <<"WorktreeAddBranch", "BranchExists">>
                 /\ d[i + 1][1] = "WorktreeAddBranch"}
      keep(i) == i \notin drop
      idx == SelectSeq([i \in 1..Len(d) |-> i], keep)
  IN  [i \in 1..Len(idx) |-> d[idx[i]]]

ReadyTraces(pr) ==
  IF ~isCrossRepo(pr)
  THEN {<<<<"SetUpstream", "err">>>>, <<<<"SetUpstream", "ok">>>>}
  ELSE {<<<<"SetUpstream", "err">>>>,
        <<<<"SetUpstream", "ok">>, <<"ConfigSet", "err">>>>,
        <<<<"SetUpstream", "ok">>, <<"ConfigSet", "ok">>, <<"ConfigSetWorktree", "err">>>>,
        <<<<"SetUpstream", "ok">>, <<"ConfigSet", "ok">>, <<"ConfigSetWorktree", "ok">>>>}

DecisionTraces(pr) ==
  {<<<<"HasWorktreeForBranch", "err">>>>,
   <<<<"HasWorktreeForBranch", "none">>, <<"Fetch", "err">>>>,
   <<<<"HasWorktreeForBranch", "none">>, <<"Fetch", "ok">>>>,
   <<<<"HasWorktreeForBranch", "none">>, <<"Fetch", "ok">>, <<"WorktreeAddBranch", "generic">>>>}
  \cup {<<<<"HasWorktreeForBranch", "found">>, <<"Fetch", r>>>> \o t :
          r \in {"ok", "err"}, t \in ReadyTraces(pr)}
  \cup {<<<<"HasWorktreeForBranch", "none">>, <<"Fetch", "ok">>, <<"WorktreeAddBranch", "">>>> \o t :
          t \in ReadyTraces(pr)}

FinalOp(pr) == IF isCrossRepo(pr) THEN "ConfigSetWorktree" ELSE "SetUpstream"

Verdict(d, pr) ==
  IF d[1][2] = "found" THEN "reused"
  ELSE IF d[Len(d)] = <<FinalOp(pr), "ok">> THEN "created"
  ELSE "error"

Outcome(f) ==
  IF f.err # "" THEN "error" ELSE IF f.result.Reused THEN "reused" ELSE "created"

SameDecisionLogic(f) ==
  /\ Collapse(Decisions(f)) \in DecisionTraces(f.pr)
  /\ Outcome(f) = Verdict(Collapse(Decisions(f)), f.pr)

UnforcedThenRetry(f) ==
  /\ Len(AddSeq(f)) <= 2
  /\ Len(AddSeq(f)) >= 1 => AddSeq(f)[1].args[4] = FALSE
  /\ Len(AddSeq(f)) = 2 => AddSeq(f)[1].res = "BranchExists" /\ AddSeq(f)[2].args[4] = TRUE

C14_SameDecisionsAsStated ==
  \A c \in Calls :
    LET f == frame[c]
    IN  /\ UnforcedThenRetry(f)
        /\ Done(c) /\ OpsOf(f, "HasWorktreeForBranch") # {} => SameDecisionLogic(f)

(***************************************************************************)
(* C14 (amended): the same decisions, except that the temporary strategy   *)
(* creates the worktree with one WorktreeAddBranch call with force = TRUE  *)
(* (no attempt with force = FALSE, no retry).                              *)
(***************************************************************************)
ForcedOnce(f) ==
  /\ Len(AddSeq(f)) <= 1
  /\ Len(AddSeq(f)) = 1 => AddSeq(f)[1].args[4] = TRUE

C14_SameDecisions ==
  \A c \in Calls :
    LET f == frame[c]
    IN  /\ IF f.temp THEN ForcedOnce(f) ELSE UnforcedThenRetry(f)
        /\ Done(c) /\ OpsOf(f, "HasWorktreeForBranch") # {} => SameDecisionLogic(f)

C14_Witness ==
  \E c \in Calls :
    LET f == frame[c]
    IN  /\ Done(c) /\ f.temp /\ Outcome(f) = "created"
        /\ IsGitRepo(f.pre, f.repoDir)
        /\ branchRefForPR(f.pr) \in f.pre.repos[f.repoDir].branches
        /\ Len(AddSeq(f)) = 1 /\ AddSeq(f)[1].args[4] = TRUE
        /\ SameDecisionLogic(f)

(***************************************************************************)
(* C15: a call that creates a new worktree attempts exactly one fetch of   *)
(* the PR's base branch from origin; when that fetch fails the call        *)
(* records a warning, returns no error and still creates the worktree.     *)
(***************************************************************************)
CreatedWorktree(f) == \E i \in Adds(f) : f.log[i].res = ""

BaseFetches(f) == {i \in OpsOf(f, "FetchBranch") : f.log[i].args[1] = Origin}

C15_BaseBranchFetch ==
  \A c \in Calls :
    LET f == frame[c]
    IN  Done(c) /\ CreatedWorktree(f) =>
          /\ Cardinality(BaseFetches(f)) = 1
          /\ \A i \in BaseFetches(f) :
               f.log[i].res = "err" => f.result.Warnings # <<>> /\ f.at # "fetchBranch"

(***************************************************************************)
(* C16: a call that returns a path has run exactly one recursive submodule *)
(* update, in the returned worktree and after the worktree existed (after  *)
(* the reuse lookup found it or WorktreeAddBranch created it); when the    *)
(* update fails the call records a warning and still returns the path.     *)
(***************************************************************************)
SubmoduleUpdates(f) == OpsOf(f, "SubmoduleUpdate")

WorktreeExistsAt(f) ==
  {i \in 1..Len(f.log) :
     \/ f.log[i].op = "HasWorktreeForBranch" /\ f.log[i].res = "found"
     \/ f.log[i].op = "WorktreeAddBranch" /\ f.log[i].res = ""}

C16_SubmoduleUpdate ==
  \A c \in Calls :
    LET f == frame[c]
    IN  Done(c) /\ f.err = "" =>
          /\ Cardinality(SubmoduleUpdates(f)) = 1
          /\ \A i \in SubmoduleUpdates(f) :
               /\ f.log[i].dir = f.result.Path
               /\ \E k \in WorktreeExistsAt(f) : k < i
               /\ f.log[i].res = "err" => f.result.Warnings # <<>>

(***************************************************************************)
(* C17: logger independence.  Every step of Resolve that consults the      *)
(* logger (resolveRepoDir, and logWarnings at the end of the reuse path)   *)
(* leaves the files and repositories alone and produces, apart from the    *)
(* messages printed, the frame the same step produces on a resolver with   *)
(* the opposite logger setting: same Result, same error, same operations.  *)
(* No other step prints, and a resolver without a logger prints nothing;   *)
(* with a logger a reused worktree's warnings are each printed.            *)
(***************************************************************************)
Silenced(f) == [f EXCEPT !.printed = <<>>]

LoggerSteps == {"resolveRepoDir", "reuseReady"}

Twin(f, fail, logger) ==
  IF f.pc = "resolveRepoDir" THEN AfterResolveRepoDir(f, World, fail, logger)
  ELSE AfterReuseReady(f, World, fail, logger)

SameWithOtherLogger ==
  \A c \in Calls :
    frame'[c] # frame[c] /\ frame[c].pc # "idle" /\ frame[c].pc # "done" =>
      IF frame[c].pc \in LoggerSteps
      THEN /\ <<dirs, repos, mtime>>' = <<dirs, repos, mtime>>
           /\ \E fail \in SUBSET {"IsGitRepo", "OriginURL", "SetUpstream", "ConfigSet",
                                  "ConfigSetWorktree"} :
                Silenced(frame'[c]) = Silenced(Twin(frame[c], fail, ~opts.Logger))
      ELSE frame'[c].printed = frame[c].printed

OnlyMessages ==
  \A c \in Calls :
    LET f == frame[c]
    IN  /\ ~opts.Logger => f.printed = <<>>
        /\ opts.Logger /\ Done(c) /\ f.err = "" /\ f.result.Reused =>
             \A i \in 1..Len(f.result.Warnings) :
               \E k \in 1..Len(f.printed) : f.printed[k] = <<"Warning: %s", f.result.Warnings[i]>>

C17_LoggerIndependence == [][SameWithOtherLogger]_vars /\ []OnlyMessages

C17_Witness ==
  \E c \in Calls :
    LET f == frame[c]
    IN  /\ Done(c) /\ opts.Logger /\ f.err = ""
        /\ f.result.Warnings # <<>>
        /\ Len(f.printed) > Len(f.result.Warnings)
        /\ f.repoDir = Join(ProjectsDir, repoSlug(f.pr.BaseRepo))

(***************************************************************************)
(* C18: recovery from partial setup.  A Resolve call made right after a    *)
(* call for the same pull request that returned an error having already    *)
(* changed state (repository cloned, remote added, worktree root or        *)
(* worktree created) either returns an error or succeeds on the state it   *)
(* finds: it clones no repository that exists, adds no remote that exists, *)
(* reuses the worktree registered for the branch, and otherwise creates    *)
(* one worktree, force-resetting a stale branch.  It never registers a     *)
(* second worktree for the branch and never creates a worktree over a      *)
(* path that exists and is not registered for the branch.                  *)
(***************************************************************************)
EntriesFor(w, d, branch) ==
  SelectSeq(w.repos[d].worktrees, LAMBDA e : e.Branch = RefsHeads \o branch)

UsesWhatExists(f) ==
  LET branch == branchRefForPR(f.pr)
      was == IsGitRepo(f.pre, f.repoDir)
  IN  /\ Len(EntriesFor(World, f.repoDir, branch)) = 1
      /\ EntriesFor(World, f.repoDir, branch)[1].Path = f.result.Path
      /\ was => OpsOf(f, "Clone") \cup OpsOf(f, "CloneBare") = {}
      /\ was => \A n \in DOMAIN f.pre.repos[f.repoDir].remotes :
                  \A i \in OpsOf(f, "AddRemote") : f.log[i].args[1] # n
      /\ IF RegisteredBefore(f)
         THEN f.result.Reused /\ Adds(f) = {} /\ f.result.Path = RegisteredPath(f)
         ELSE /\ ~f.result.Reused
              /\ AddSeq(f)[Len(AddSeq(f))].res = ""
              /\ was /\ branch \in f.pre.repos[f.repoDir].branches
                 => AddSeq(f)[Len(AddSeq(f))].args[4] = TRUE

C18_Recovery ==
  \A c \in Calls :
    LET f == frame[c]
    IN  f.prior.partial =>
          /\ f.repoDir # Empty /\ IsGitRepo(World, f.repoDir)
             => Len(EntriesFor(World, f.repoDir, branchRefForPR(f.pr))) <= 1
          /\ PathTaken(f) => Adds(f) = {} /\ PathKept(f, worktreePathOf(f))
          /\ Done(c) => f.err # "" \/ UsesWhatExists(f)

C18_Witness ==
  \E c \in Calls :
    LET f == frame[c]
    IN  /\ f.prior.partial /\ f.prior.at = "ready"
        /\ ~IsGitRepo(f.prior.pre, f.repoDir)
        /\ Done(c) /\ f.err = "" /\ f.result.Reused
        /\ f.result.Path \notin f.prior.pre.dirs
        /\ OpsOf(f, "Clone") = {} /\ Adds(f) = {}

(***************************************************************************)
(* C19: two Resolve calls for one pull request whose steps interleave      *)
(* freely.  A call that has returned either returned an error or returned  *)
(* a Path that is registered, in the repository it returned, as the        *)
(* worktree of the pull request's branch, and that worktree was registered *)
(* before the call began or was created by a successful WorktreeAddBranch  *)
(* of one of the two calls.  No repository has two worktrees registered    *)
(* for the branch.                                                         *)
(***************************************************************************)
CreatedBy(f, path) ==
  \E i \in Adds(f) : f.log[i].res = "" /\ f.log[i].args[1] = path /\ path \in dirs

RegisteredFor(w, d, path, branch) ==
  /\ IsGitRepo(w, d)
  /\ \E i \in 1..Len(w.repos[d].worktrees) :
       w.repos[d].worktrees[i] = Worktree(path, RefsHeads \o branch)

ReturnedWorktree(f) ==
  /\ f.result.RepoDir = f.repoDir
  /\ RegisteredFor(World, f.repoDir, f.result.Path, branchRefForPR(f.pr))
  /\ \/ RegisteredFor(f.pre, f.repoDir, f.result.Path, branchRefForPR(f.pr))
     \/ \E d \in Calls : CreatedBy(frame[d], f.result.Path)

C19_Uncoordinated ==
  /\ \A c \in Calls : Done(c) => frame[c].err # "" \/ ReturnedWorktree(frame[c])
  /\ \A d \in DOMAIN repos : \A pr \in PRs :
       Len(EntriesFor(World, d, branchRefForPR(pr))) <= 1

(* both calls found no worktree; one created it, the other's               *)
(* WorktreeAddBranch met the branch and path the first had just made       *)
C19_Witness ==
  \E c, d \in Calls :
    LET f == frame[c]
        g == frame[d]
        fresh(h) == IsGitRepo(h.pre, h.repoDir)
                      => branchRefForPR(h.pr) \notin h.pre.repos[h.repoDir].branches
    IN  /\ c # d /\ Done(c) /\ Done(d) /\ f.pr = g.pr
        /\ fresh(f) /\ fresh(g)
        /\ f.err = "" /\ ~f.result.Reused /\ CreatedBy(f, f.result.Path)
        /\ g.err # "" /\ g.at = "retry"
        /\ \E i \in Adds(g) : g.log[i].res = "BranchExists" /\ g.log[i].args[1] = f.result.Path

(***************************************************************************)
(* C20: for a pull request whose base and head owner and name are equal    *)
(* ignoring case, every operation of Resolve uses the raw head ref as the  *)
(* branch: the worktree lookup asks for <headRef>, the fetch is from       *)
(* origin with +refs/heads/<headRef>:refs/remotes/origin/<headRef>, the    *)
(* worktree is added for branch <headRef> from origin/<headRef>, upstream  *)
(* of <headRef> is set to origin/<headRef> in the worktree path, and no    *)
(* remote other than origin is added.                                      *)
(***************************************************************************)
SameRepo(pr) ==
  /\ ToLower(pr.BaseRepo.Owner) = ToLower(pr.HeadRepo.Owner)
  /\ ToLower(pr.BaseRepo.Name) = ToLower(pr.HeadRepo.Name)

OriginRef(pr) == <<"origin", "/">> \o pr.HeadRef

SameRepoOp(f, o) ==
  LET h == f.pr.HeadRef
  IN  /\ o.op = "HasWorktreeForBranch" => o.args = <<h>>
      /\ o.op = "Fetch" =>
           o.args = <<(<<"origin">>),
                      <<"+refs/heads/">> \o h \o <<":refs/remotes/origin/">> \o h>>
      /\ o.op = "WorktreeAddBranch" => o.args[2] = h /\ o.args[3] = OriginRef(f.pr)
      /\ o.op = "SetUpstream" => o.dir = f.path /\ o.args = <<h, OriginRef(f.pr)>>
      /\ o.op \in {"AddRemote", "SetRemoteURL"} => o.args[1] = <<"origin">>

C20_SameRepo ==
  \A c \in Calls :
    LET f == frame[c]
    IN  f.pc # "idle" /\ SameRepo(f.pr) =>
          /\ \A i \in 1..Len(f.log) : SameRepoOp(f, f.log[i])
          /\ Done(c) /\ f.err = "" /\ ~f.result.Reused =>
               /\ f.result.Path = f.path
               /\ RegisteredFor(World, f.repoDir, f.path, f.pr.HeadRef)
               /\ OpsOf(f, "SetUpstream") # {}

C20_Witness ==
  \E c \in Calls :
    LET f == frame[c]
    IN  /\ Done(c) /\ f.err = "" /\ ~f.result.Reused /\ ~f.temp
        /\ f.pr.HeadRepo.Owner # f.pr.BaseRepo.Owner /\ SameRepo(f.pr)
        /\ f.pre = EmptyWorld
        /\ f.result.Path = <<"/projects", "/", "repo", "-worktrees", "/", "pr", "-", "15", "-", "feature">>
        /\ \E i \in OpsOf(f, "Clone") : f.log[i].dir = <<"/projects", "/", "repo">>
        /\ \E i \in OpsOf(f, "Fetch") : f.log[i].res = "ok"
        /\ \E i \in Adds(f) : f.log[i].res = ""

(***************************************************************************)
(* C21: for a pull request whose head repository differs from its base     *)
(* (owner or name, ignoring case), in both strategies: the only remote      *)
(* added besides origin is prt/<headOwner>/<headRepo> with the head clone   *)
(* URL; every fetch is from that remote, with refspec                       *)
(* +refs/heads/<headRef>:refs/remotes/<remote>/<headRef>, and the remote    *)
(* exists in the repository when the fetch is made; the branch is           *)
(* pr/<number>/<headRef>; start point and upstream are <remote>/<headRef>;  *)
(* and a call that returns a worktree without a tracking warning has set    *)
(* extensions.worktreeConfig=true in the repository and                     *)
(* push.default=upstream for the worktree at the returned path.             *)
(***************************************************************************)
CrossRepo(pr) == ~SameRepo(pr)

ForkRemote(pr) == <<"prt", "/">> \o pr.HeadRepo.Owner \o <<"/">> \o pr.HeadRepo.Name

ForkBranch(pr) == <<"pr", "/", pr.Number, "/">> \o pr.HeadRef

ForkRef(pr) == ForkRemote(pr) \o <<"/">> \o pr.HeadRef

CrossRepoOp(f, o) ==
  LET h == f.pr.HeadRef
  IN  /\ o.op = "AddRemote" /\ o.args[1] # <<"origin">> =>
           o.args = <<ForkRemote(f.pr), f.pr.HeadRepo.CloneURL>>
      /\ o.op = "HasWorktreeForBranch" => o.args = <<ForkBranch(f.pr)>>
      /\ o.op = "Fetch" =>
           /\ o.args = <<ForkRemote(f.pr),
                         <<"+refs/heads/">> \o h \o <<":refs/remotes/">>
                           \o ForkRemote(f.pr) \o <<"/">> \o h>>
           /\ IsGitRepo(World, o.dir) /\ ForkRemote(f.pr) \in DOMAIN repos[o.dir].remotes
      /\ o.op = "WorktreeAddBranch" =>
           o.args[2] = ForkBranch(f.pr) /\ o.args[3] = ForkRef(f.pr)
      /\ o.op = "SetUpstream" =>
           o.dir = f.path /\ o.args = <<ForkBranch(f.pr), ForkRef(f.pr)>>

PushConfigured(f) ==
  /\ \E i \in 1..Len(f.log) :
       f.log[i] = Op("ConfigSet", f.result.RepoDir,
                     <<<<"extensions.worktreeConfig">>, <<"true">>>>, "ok")
  /\ \E i \in 1..Len(f.log) :
       f.log[i] = Op("ConfigSetWorktree", f.result.Path,
                     <<<<"push.default">>, <<"upstream">>>>, "ok")

C21_CrossRepo ==
  \A c \in Calls :
    LET f == frame[c]
    IN  f.pc # "idle" /\ CrossRepo(f.pr) =>
          /\ \A i \in 1..Len(f.log) : CrossRepoOp(f, f.log[i])
          /\ Done(c) /\ f.err = ""
             /\ (\A i \in 1..Len(f.result.Warnings) :
                   f.result.Warnings[i] # "could not update worktree tracking config")
             => PushConfigured(f)

C21_Witness ==
  \E c \in Calls :
    LET f == frame[c]
    IN  /\ Done(c) /\ f.err = "" /\ ~f.result.Reused /\ CrossRepo(f.pr)
        /\ f.pr.Number = "21"
        /\ \E i \in OpsOf(f, "AddRemote") : f.log[i].args[1] = <<"prt", "/", "fork", "/", "repo">>
        /\ \E i \in Adds(f) :
             /\ f.log[i].res = ""
             /\ f.log[i].args[2] = <<"pr", "/", "21", "/", "fix", "/", "bug">>
             /\ f.log[i].args[3] = <<"prt", "/", "fork", "/", "repo", "/", "fix", "/", "bug">>
        /\ PushConfigured(f)

(***************************************************************************)
(* C22: ensureRepo, on the directory d that resolveRepoDir returned.  git  *)
(* clone is invoked exactly when d does not exist.  When d exists and is   *)
(* not a repository the call fails there, with no clone, no remote added   *)
(* and nothing changed.  When d is a repository without origin, origin is  *)
(* added with the base repository's clone URL.  When d has an origin, no   *)
(* remote named origin is added and its URL stays as it was.               *)
(***************************************************************************)
RanEnsureRepo(f) ==
  /\ ~f.temp
  /\ f.pc \notin {"idle", "resolveRepoDir", "ensureRepo"}
  /\ f.at # "resolveRepoDir"

OriginAdds(f) == {i \in OpsOf(f, "AddRemote") : f.log[i].args[1] = <<"origin">>}

EnsuredRepo(f) ==
  LET d == f.repoDir
      url == f.pr.BaseRepo.CloneURL
      leftAt == f.pc = "done" /\ f.at = "ensureRepo"
  IN  /\ OpsOf(f, "Clone") # {} <=> d \notin f.pre.dirs
      /\ \A i \in OpsOf(f, "Clone") : f.log[i].dir = d /\ f.log[i].args = <<url>>
      /\ OpsOf(f, "SetRemoteURL") = {}
      /\ d \notin f.pre.dirs /\ ~leftAt =>
           /\ IsGitRepo(World, d) /\ RemoteURL(World, d, <<"origin">>) = url
           /\ OriginAdds(f) = {}
      /\ d \in f.pre.dirs /\ ~IsGitRepo(f.pre, d) =>
           /\ leftAt /\ f.err # "" /\ f.result = ZeroResult
           /\ OpsOf(f, "AddRemote") = {}
           /\ World = f.pre
      /\ IsGitRepo(f.pre, d) /\ ~HasRemote(f.pre, d, <<"origin">>) =>
           /\ ~leftAt => Cardinality(OriginAdds(f)) = 1
           /\ \A i \in OriginAdds(f) : f.log[i].dir = d /\ f.log[i].args = <<(<<"origin">>), url>>
           /\ ~leftAt => RemoteURL(World, d, <<"origin">>) = url
      /\ IsGitRepo(f.pre, d) /\ HasRemote(f.pre, d, <<"origin">>) =>
           /\ OriginAdds(f) = {}
           /\ RemoteURL(World, d, <<"origin">>) = RemoteURL(f.pre, d, <<"origin">>)

C22_EnsureRepo == \A c \in Calls : RanEnsureRepo(frame[c]) => EnsuredRepo(frame[c])

C22_Witness ==
  \E c \in Calls :
    LET f == frame[c]
    IN  /\ RanEnsureRepo(f) /\ Done(c) /\ f.err = ""
        /\ IsGitRepo(f.pre, f.repoDir) /\ ~HasRemote(f.pre, f.repoDir, <<"origin">>)
        /\ OpsOf(f, "Clone") = {}
        /\ RemoteURL(World, f.repoDir, <<"origin">>) = f.pr.BaseRepo.CloneURL

(***************************************************************************)
(* C23: a call that created a worktree returns, in persistent mode, the    *)
(* resolved repository directory as RepoDir and                            *)
(* <RepoDir>-worktrees/pr-<number>-<sanitized headRef> as Path; in         *)
(* temporary mode <tempDir>/<owner>-<repoName>.git as RepoDir and          *)
(* <tempDir>/<owner>-<repoName>-pr-<number>-<sanitized headRef> as Path,   *)
(* owner and repoName being those of the base repository.  (The head refs  *)
(* resolved here hold no space and no dots, so sanitizing them turns each  *)
(* "/" into "-".)                                                          *)
(***************************************************************************)
Dashed(h) == [i \in 1..Len(h) |-> IF h[i] = "/" THEN "-" ELSE h[i]]

PrName(pr) == <<"pr", "-", pr.Number, "-">> \o Dashed(pr.HeadRef)

BaseSlug(pr) == pr.BaseRepo.Owner \o <<"-">> \o pr.BaseRepo.Name

ResolvedDirs(pr) ==
  {<<"/projects", "/">> \o pr.BaseRepo.Name, <<"/projects", "/">> \o BaseSlug(pr)}

PathLayout(f) ==
  IF f.temp
  THEN /\ f.result.RepoDir = <<"/tmp/prt", "/">> \o BaseSlug(f.pr) \o <<".git">>
       /\ f.result.Path = <<"/tmp/prt", "/">> \o BaseSlug(f.pr) \o <<"-">> \o PrName(f.pr)
  ELSE /\ f.result.RepoDir = f.repoDir
       /\ f.result.RepoDir \in ResolvedDirs(f.pr)
       /\ f.result.Path = f.result.RepoDir \o <<"-worktrees", "/">> \o PrName(f.pr)

C23_PathLayout ==
  \A c \in Calls :
    LET f == frame[c]
    IN  Done(c) /\ f.err = "" /\ ~f.result.Reused =>
          /\ PathLayout(f)
          /\ \E i \in Adds(f) : f.log[i].res = "" /\ f.log[i].args[1] = f.result.Path
                                  /\ f.log[i].dir = f.result.RepoDir

C23_Witness ==
  \E c \in Calls :
    LET f == frame[c]
    IN  /\ Done(c) /\ f.err = "" /\ ~f.result.Reused /\ f.temp
        /\ f.pr.HeadRepo # f.pr.BaseRepo
        /\ f.result.RepoDir = <<"/tmp/prt", "/", "octo", "-", "repo", ".git">>
        /\ f.result.Path =
             <<"/tmp/prt", "/", "octo", "-", "repo", "-", "pr", "-", "21", "-", "fix", "-", "bug">>
        /\ f.result.Path \in dirs

(***************************************************************************)
(* C24: for every head ref, worktreeName is pr-<number>- followed by a     *)
(* component that is not empty and holds no "/", no space and no two dots  *)
(* in a row; an empty or all-whitespace head ref gives the component       *)
(* branch.  The name therefore is one path segment.                        *)
(***************************************************************************)
NamePrefix(pr) == <<"pr", "-", pr.Number, "-">>

Component(f) == SubSeq(f.path, Len(NamePrefix(f.pr)) + 1, Len(f.path))

Blank(h) == \A i \in 1..Len(h) : h[i] \in {" ", "\t", "\n"}

C24_Sanitized ==
  \A c \in Calls :
    LET f == frame[c]
        s == Component(f)
    IN  f.pc = "named" =>
          /\ SubSeq(f.path, 1, Len(NamePrefix(f.pr))) = NamePrefix(f.pr)
          /\ s # <<>>
          /\ \A i \in 1..Len(s) : s[i] # "/" /\ s[i] # " " /\ s[i] # ""
          /\ \A i \in 1..(Len(s) - 1) : ~(s[i] = "." /\ s[i + 1] = ".")
          /\ Blank(f.pr.HeadRef) => s = <<"branch">>
          /\ \A i \in 1..Len(f.path) : f.path[i] # "/"

C24_Witness ==
  \E c \in Calls :
    LET f == frame[c]
    IN  /\ f.pc = "named"
        /\ f.pr.HeadRef = <<".", ".", ".", "/">>
        /\ f.path = <<"pr", "-", "15", "-", "-", ".", "-">>

(***************************************************************************)
(* C25: branchMatches is symmetric, branchMatches(a, b) =                  *)
(* branchMatches(b, a), and its result is whether a and b are equal once   *)
(* one leading refs/heads/ is removed from each side that has it.          *)
(***************************************************************************)
Stripped(r) ==
  IF Len(r) >= 1 /\ r[1] = "refs/heads/" THEN SubSeq(r, 2, Len(r)) ELSE r

C25_BranchMatchesSymmetric ==
  /\ (\A c \in Calls : frame[c].pc = "matched")
       => \A c, d \in Calls : frame[c].result.Reused = frame[d].result.Reused
  /\ \A c \in Calls :
       LET f == frame[c]
       IN  f.pc = "matched" =>
             f.result.Reused = (Stripped(f.path) = Stripped(f.pr.HeadRef))

(***************************************************************************)
(* C26 (as stated): parsing a listing made of well-formed groups returns   *)
(* one entry per group in input order with exactly the group's path and    *)
(* branch; a group without a branch line has an empty branch, no branch    *)
(* leaks into the next group, and the last group is emitted without a      *)
(* trailing blank line.                                                    *)
(***************************************************************************)
Listed(c) == frame[c].pc = "listed"

Parsed(c) == frame[c].log[1].res

C26_ParseExact ==
  \A c \in SeqCalls : Listed(c) => Parsed(c) = repos[ListedDir].worktrees

(***************************************************************************)
(* C26 (amended): parsing a listing made of well-formed groups returns one *)
(* entry per group in input order, with the group's path stripped of       *)
(* leading and trailing white space and the group's branch; a group        *)
(* without a branch line has an empty branch, no branch leaks into the     *)
(* next group, and the last group is emitted without a trailing blank line.*)
(***************************************************************************)
C26_ParseGroups ==
  \A c \in SeqCalls :
    Listed(c) =>
      LET groups == repos[ListedDir].worktrees
      IN  /\ Len(Parsed(c)) = Len(groups)
          /\ \A i \in 1..Len(groups) :
               /\ Parsed(c)[i].Path = TrimSpace(groups[i].Path)
               /\ Parsed(c)[i].Branch = groups[i].Branch

(* two groups, the first detached and the second on a branch, the listing  *)
(* ending right after the last line                                        *)
C26_Witness ==
  \E c \in SeqCalls :
    /\ Listed(c)
    /\ Len(repos[ListedDir].worktrees) = 2
    /\ repos[ListedDir].worktrees[1].Branch = Empty
    /\ repos[ListedDir].worktrees[2].Branch # Empty
    /\ ~HasSuffix(frame[c].log[1].args, <<"\n">>)
    /\ Len(Parsed(c)) = 2

(***************************************************************************)
(* C27: a failed WorktreeAddBranch returns the BranchExists error exactly  *)
(* when force is false and the command output contains "already exists";   *)
(* every other failure is a generic error that is not BranchExists; a      *)
(* successful command returns no error.                                    *)
(***************************************************************************)
AddRun(c) == frame[c].pc = "added"

Mentions(out) ==
  \E i \in 1..Len(out) :
    i + 2 <= Len(out) /\ out[i] = "already" /\ out[i + 1] = " " /\ out[i + 2] = "exists"

C27_BranchExistsClass ==
  \A c \in SeqCalls :
    AddRun(c) =>
      LET out == frame[c].log[1].args[1]
          failedRun == frame[c].log[1].args[2]
          force == frame[c].log[1].args[3]
      IN  /\ failedRun => (frame[c].err = "BranchExists" <=> (~force /\ Mentions(out)))
          /\ failedRun /\ ~(~force /\ Mentions(out)) => frame[c].err = "generic"
          /\ ~failedRun => frame[c].err = ""

(* a forced call whose failed command printed "... already exists" *)
C27_Witness ==
  \E c \in SeqCalls :
    /\ AddRun(c)
    /\ frame[c].log[1].args[2]
    /\ frame[c].log[1].args[3]
    /\ Mentions(frame[c].log[1].args[1])
    /\ frame[c].err = "generic"

(***************************************************************************)
(* C28 (as stated): a Resolve that immediately repeats a successful        *)
(* Resolve for the same pull request on the unchanged state returns the    *)
(* same Path and RepoDir with Reused = true, invokes no clone and no       *)
(* WorktreeAddBranch, and leaves the registered worktrees and the remotes  *)
(* unchanged.                                                              *)
(***************************************************************************)
Repeats(f) == f.prior.at = "ok"

SameAnswer(f) ==
  /\ f.result.Path = f.prior.result.Path
  /\ f.result.RepoDir = f.prior.result.RepoDir
  /\ f.result.Reused

NothingCreated(f) ==
  /\ OpsOf(f, "Clone") = {}
  /\ Adds(f) = {}
  /\ DOMAIN repos = DOMAIN f.pre.repos
  /\ \A d \in DOMAIN repos :
       /\ repos[d].worktrees = f.pre.repos[d].worktrees
       /\ repos[d].remotes = f.pre.repos[d].remotes

OriginFailed(log) == \E i \in 1..Len(log) : log[i].op = "OriginURL" /\ log[i].res = "err"

CommandFailed(log) == \E i \in 1..Len(log) : log[i].res = "err"

SameOriginAnswer(f) == ~OriginFailed(f.log) /\ ~OriginFailed(f.prior.log)

SucceededAdds(f) == {i \in Adds(f) : f.log[i].res = ""}

C29_ReusedFlag ==
  \A c \in SeqCalls :
    LET f == frame[c]
    IN  Done(c) /\ f.err = "" =>
          /\ f.result.Reused <=> Adds(f) = {}
          /\ ~f.result.Reused <=> Cardinality(SucceededAdds(f)) = 1

(* a call that returned a created worktree after a refused first attempt *)
C29_Witness ==
  \E c \in SeqCalls :
    LET f == frame[c]
    IN  /\ Done(c) /\ f.err = ""
        /\ ~f.result.Reused
        /\ Cardinality(Adds(f)) = 2
        /\ Cardinality(SucceededAdds(f)) = 1

(***************************************************************************)
(* C30: whenever Resolve returns without error, Result.Path is a directory *)
(* that exists on disk, also on the reuse path when the directory of the   *)
(* registered worktree was deleted while its registration remains.         *)
(***************************************************************************)
C30_PathOnDisk ==
  \A c \in SeqCalls :
    LET f == frame[c]
    IN  Done(c) /\ f.err = "" => pathExists(World, f.result.Path)

(***************************************************************************)
(* C31: at the moment Resolve invokes WorktreeAddBranch with force = true  *)
(* for a branch, no registered worktree of the repository has that branch  *)
(* checked out, for sequential calls in both modes and under any           *)
(* interleaving of two concurrent calls on the same repository directory.  *)
(***************************************************************************)
ForcedAddNow(c) ==
  /\ Len(frame'[c].log) = Len(frame[c].log) + 1
  /\ frame'[c].log[Len(frame'[c].log)].op = "WorktreeAddBranch"
  /\ frame'[c].log[Len(frame'[c].log)].args[4]

ForcedOnUnclaimed ==
  \A c \in Calls :
    ForcedAddNow(c) =>
      LET op == frame'[c].log[Len(frame'[c].log)]
      IN  ~BranchClaimed(World, op.dir, op.args[2])

C31_ForceOnlyUnclaimed == [][ForcedOnUnclaimed]_vars

(***************************************************************************)
(* C32 (as stated): after a successful Resolve(temp) for a pull request    *)
(* and a CleanTemp(removeAll, live) on the same tempDir, neither the       *)
(* worktree directory nor the bare repository directory exists, and a      *)
(* following Resolve(temp) for the same pull request succeeds with         *)
(* Reused = false and the same Path as the first call.                     *)
(***************************************************************************)
CleanedAfterResolve ==
  /\ clean.pc = "done" /\ clean.args.removeAll /\ ~clean.args.dryRun
  /\ hist.resolved.ok

BothGone(result) == result.Path \notin dirs /\ result.RepoDir \notin dirs

AfterRoundTrip(f) == f.prior.at = "cleaned"

RefusedCommand(log) == \E i \in 1..Len(log) : log[i].res \in {"err", "generic", "BranchExists"}

TrackedRun == CleanDone /\ hist.last.pc = "done" /\ ~clean.args.removeAll

NoStat(q) == q \notin clean.pre.dirs \/ <<"Stat", q>> \in hist.last.fail

ListedUnder(d) ==
  {clean.pre.repos[d].worktrees[i].Path : i \in 1..Len(clean.pre.repos[d].worktrees)} \ {d}

CleanErrors ==
  {i \in 1..Len(clean.log) :
     clean.log[i].op \in {"WorktreeList", "WorktreeRemove", "RemoveAll"} /\ clean.log[i].res = "err"}

C33_StatFailureKeeps ==
  TrackedRun =>
    /\ \A d \in {b \in DOMAIN clean.pre.repos : clean.pre.repos[b].bare} :
         \A q \in ListedUnder(d) :
           NoStat(q) =>
             /\ q \notin Range(clean.results)
             /\ \A i \in RemoveOps : clean.log[i].args[1] # q
             /\ Registered(World, q)
             /\ d \in dirs /\ IsGitRepo(World, d)
    /\ clean.err # "" => clean.err = "ReadDir" \/ CleanErrors # {}

(* a live run that met a worktree it could not stat next to one it removed, *)
(* and returned without error                                              *)
C33_Witness ==
  /\ TrackedRun /\ ~clean.args.dryRun /\ clean.err = ""
  /\ \E d \in ScannedRepos : \E q, r \in ListedUnder(d) :
       /\ NoStat(q)
       /\ r \in RemovedPaths
       /\ d \in dirs

(***************************************************************************)
(* C34 (as stated): with removeAll = false a worktree is marked for        *)
(* removal exactly when its directory is older than now - ttl, its age     *)
(* strictly greater than ttl; a worktree whose age is less than or equal   *)
(* to ttl is never marked.                                                 *)
(***************************************************************************)
Age(q) == clean.args.now - clean.pre.mtime[q]

Marked(q) == q \in Range(clean.results)

AgedRun == TrackedRun /\ clean.err = ""

Statable(d) == {q \in ListedUnder(d) : ~NoStat(q) /\ q \in DOMAIN clean.pre.mtime}

C34_StrictlyOlder ==
  AgedRun =>
    \A d \in ScannedRepos : \A q \in Statable(d) : Marked(q) <=> Age(q) > clean.args.ttl

(***************************************************************************)
(* C34 (amended): with removeAll = false a worktree is marked for removal  *)
(* exactly when the age of its directory is greater than or equal to ttl;  *)
(* a worktree whose age is less than ttl is never marked.                  *)
(***************************************************************************)
C34_TtlBoundary ==
  AgedRun =>
    \A d \in ScannedRepos : \A q \in Statable(d) : Marked(q) <=> Age(q) >= clean.args.ttl

(* one run that marked a worktree whose age equals ttl and kept a younger one *)
C34_Witness ==
  /\ AgedRun
  /\ \E d \in ScannedRepos : \E q, r \in Statable(d) :
       /\ Age(q) = clean.args.ttl /\ Marked(q)
       /\ Age(r) < clean.args.ttl /\ ~Marked(r)

(***************************************************************************)
(* CleanTemp over a temporary directory with several entries: the bare     *)
(* repository of octo/repo, the bare repository of another project with    *)
(* two worktrees, and a regular file whose name ends in .git               *)
(***************************************************************************)
OtherRepo == [Owner |-> <<"octo">>, Name |-> <<"bug">>]

OtherBare == Join(TempDir, repoSlug(OtherRepo) \o <<".git">>)

OtherWorktree(pr) == Join(TempDir, repoSlug(OtherRepo) \o <<"-">> \o worktreeName(pr))

WithOtherBare(w) ==
  LET w1 == Clone(WithDir(w, TempDir), GitHubURL(OtherRepo.Owner, OtherRepo.Name), OtherBare, TRUE)
      w2 == AddedWorktree(w1, OtherBare, OtherWorktree(PR15), branchRefForPR(PR15), 0)
  IN  AddedWorktree(w2, OtherBare, OtherWorktree(PR21), branchRefForPR(PR21), 0)

WithFile(w) == [w EXCEPT !.dirs = @ \cup {TempDir} \cup RegularFiles]

InitScan ==
  /\ opts \in [Temp : {TRUE}, Logger : {TRUE}]
  /\ \E bk \in BareKinds, extra \in Extras, other \in BOOLEAN, file \in BOOLEAN :
       LET w0 == InitialWorld("absent", "absent", bk, extra)
           w1 == IF other THEN WithOtherBare(w0) ELSE w0
           w  == IF file THEN WithFile(w1) ELSE w1
       IN  /\ dirs = w.dirs
           /\ repos = w.repos
           /\ mtime = w.mtime
  /\ clock = 0
  /\ frame = [c \in Calls |-> IdleFrame]
  /\ clean = IdleClean
  /\ hist = NoHist

(* CleanTemp, remembered with the failures it met *)
CleanTempObserved(ttl, removeAll, dryRun, now) ==
  \E fail \in CleanFailures(removeAll, dryRun) :
    /\ CleanTempRun(ttl, removeAll, dryRun, now, fail)
    /\ hist' = [last |-> [pc |-> "done", args |-> clean'.args, results |-> clean'.results,
                          err |-> clean'.err, fail |-> fail, pre |-> World],
                prev |-> NoClean,
                resolved |-> NoResolved]

NextScan ==
  \E removeAll \in BOOLEAN, dryRun \in BOOLEAN, now \in 0..MaxTime :
    CleanTempObserved(TTL, removeAll, dryRun, now)

SpecScan == InitScan /\ [][NextScan]_vars

(***************************************************************************)
(* C35: if WorktreeRemove fails for a worktree during a live CleanTemp     *)
(* run, CleanTemp returns an error, the bare repository that owns the      *)
(* worktree is not deleted, no further bare repository is processed in     *)
(* that run, and the removals already performed stay performed.            *)
(***************************************************************************)
FailedRemoves == {i \in RemoveOps : clean.log[i].res = "err"}

(* the bare repositories os.ReadDir lists after d *)
ListedAfter(d) ==
  {b \in DOMAIN clean.pre.repos : clean.pre.repos[b].bare /\ NameLess(d, b)}

C35_RemoveFailureStops ==
  CleanDone =>
    \A i \in FailedRemoves :
      LET d == clean.log[i].dir
      IN  /\ ~clean.args.dryRun
          /\ clean.err # ""
          /\ d \in dirs
          /\ IsGitRepo(World, d)
          /\ i = Len(clean.log)
          /\ \A b \in ListedAfter(d) :
               /\ b \in dirs
               /\ IsGitRepo(World, b)
               /\ repos[b] = clean.pre.repos[b]
               /\ \A q \in ListedUnder(b) : q \in clean.pre.dirs => q \in dirs
          /\ \A q \in RemovedPaths : q \notin dirs /\ ~Registered(World, q)

(* the second worktree of the first bare repository could not be removed   *)
(* after the first one was, and a second bare repository with a worktree   *)
(* was waiting                                                             *)
C35_Witness ==
  /\ CleanDone
  /\ \E i \in FailedRemoves :
       /\ RemovedPaths # {}
       /\ \E b \in ListedAfter(clean.log[i].dir) : ListedUnder(b) \cap dirs # {}

(***************************************************************************)
(* C36: every repository directory that existed before a persistent        *)
(* Resolve and in which the call fetches, adds remotes or creates          *)
(* worktrees has an origin remote that matches the target repository; an   *)
(* already existing fallback directory is used only if it is a repository  *)
(* whose origin matches the target.                                        *)
(***************************************************************************)
OperatingOps == {"Fetch", "AddRemote", "WorktreeAddBranch"}

OperatedDirs(f) == {f.log[i].dir : i \in {k \in 1..Len(f.log) : f.log[k].op \in OperatingOps}}

OriginNamesTarget(f, d) ==
  /\ HasRemote(f.pre, d, Origin)
  /\ IdentifiesRepo(RemoteURL(f.pre, d, Origin), f.pr.BaseRepo)

C36_OnlyMatchingRepos ==
  \A c \in Calls :
    LET f == frame[c]
    IN  ~f.temp /\ f.pc # "idle"
        => \A d \in OperatedDirs(f) : IsGitRepo(f.pre, d) => OriginNamesTarget(f, d)

(***************************************************************************)
(* C37: push.default is only ever written worktree-scoped, at the resolved *)
(* worktree path of a cross-repo PR, never at repository level or for      *)
(* another worktree; for a same-repo PR Resolve writes neither             *)
(* push.default nor extensions.worktreeConfig; for a cross-repo PR         *)
(* extensions.worktreeConfig=true is written on the repository before the  *)
(* worktree-scoped write.                                                  *)
(***************************************************************************)
ConfigWrites(f) == {i \in 1..Len(f.log) : f.log[i].op \in {"ConfigSet", "ConfigSetWorktree"}}

WritesKey(f, i, key) == i \in ConfigWrites(f) /\ f.log[i].args[1] = key

WorktreeConfigOn(f) ==
  Op("ConfigSet", f.repoDir, <<<<"extensions.worktreeConfig">>, <<"true">>>>, "ok")

C37_PushConfined ==
  \A c \in Calls :
    LET f == frame[c]
    IN  \A i \in ConfigWrites(f) :
          /\ WritesKey(f, i, <<"push.default">>)
             => /\ isCrossRepo(f.pr)
                /\ f.log[i].op = "ConfigSetWorktree"
                /\ f.log[i].dir = f.path
                /\ f.log[i].args = <<<<"push.default">>, <<"upstream">>>>
                /\ (Done(c) /\ f.err = "" => f.log[i].dir = f.result.Path)
                /\ \E j \in 1..(i - 1) : f.log[j] = WorktreeConfigOn(f)
          /\ WritesKey(f, i, <<"extensions.worktreeConfig">>)
             => /\ isCrossRepo(f.pr)
                /\ f.log[i].op = "ConfigSet"
                /\ f.log[i].dir = f.repoDir

(* a cross-repo call that reused the worktree of an earlier call and      *)
(* configured push there                                                   *)
C37_Witness ==
  \E c \in Calls :
    LET f == frame[c]
    IN  /\ Done(c) /\ f.err = "" /\ isCrossRepo(f.pr)
        /\ f.result.Reused
        /\ \E i \in ConfigWrites(f) :
             /\ WritesKey(f, i, <<"push.default">>)
             /\ f.log[i].dir = f.result.Path
             /\ f.log[i].res = "ok"

(***************************************************************************)
(* C38 (as stated): CleanTemp returns an empty result and no error when    *)
(* tempDir does not exist, fails when tempDir exists but cannot be read,   *)
(* examines only immediate subdirectories of tempDir whose name ends in    *)
(* .git, never marks or removes a listing entry whose path is the bare     *)
(* repository directory itself, and never touches an entry of tempDir      *)
(* that is not such a directory.                                           *)
(***************************************************************************)
ScanRun == CleanDone /\ hist.last.pc = "done"

ReadFailed == <<"ReadDir", TempDir>> \in hist.last.fail

Entries(w) == {p \in w.dirs : IsChild(TempDir, p)}

BareEntries(w) == {p \in Entries(w) : IsDir(w, p) /\ HasSuffix(p, <<".git">>)}

NothingDone ==
  /\ clean.results = <<>>
  /\ clean.log = <<>>
  /\ World = clean.pre

ScanScope ==
  /\ TempDir \notin clean.pre.dirs => clean.err = "" /\ NothingDone
  /\ TempDir \in clean.pre.dirs /\ ReadFailed => clean.err # "" /\ NothingDone
  /\ \A i \in 1..Len(clean.log) : clean.log[i].dir \in BareEntries(clean.pre)
  /\ \A d \in BareEntries(clean.pre) :
       /\ ~Marked(d)
       /\ \A i \in RemoveOps : clean.log[i].args[1] # d

SameOnDisk(q) ==
  /\ q \in dirs
  /\ q \in DOMAIN clean.pre.mtime => q \in DOMAIN mtime /\ mtime[q] = clean.pre.mtime[q]

C38_ScanScope ==
  ScanRun =>
    /\ ScanScope
    /\ \A q \in Entries(clean.pre) \ BareEntries(clean.pre) : SameOnDisk(q)

(***************************************************************************)
(* C38 (amended): as stated, except that an entry of tempDir that is not   *)
(* such a directory may be removed as a worktree when an examined bare     *)
(* repository lists it; every other such entry is never touched.           *)
(***************************************************************************)
RemovedAsWorktree(q) ==
  /\ q \in RemovedPaths
  /\ \E d \in ScannedRepos : q \in ListedUnder(d)

C38_ScanScopeWorktrees ==
  ScanRun =>
    /\ ScanScope
    /\ \A q \in Entries(clean.pre) \ BareEntries(clean.pre) :
         SameOnDisk(q) \/ RemovedAsWorktree(q)

(* a live run over two bare repositories, a regular file named like one    *)
(* and a directory no repository lists: worktrees went, the file and the   *)
(* directory stayed                                                        *)
C38_Witness ==
  /\ ScanRun /\ clean.err = "" /\ ~clean.args.dryRun
  /\ Cardinality(ScannedRepos) = 2
  /\ RegularFiles \subseteq clean.pre.dirs
  /\ RegularFiles \subseteq dirs
  /\ \E q \in Entries(clean.pre) \ BareEntries(clean.pre) : RemovedAsWorktree(q)
  /\ \E q \in Entries(clean.pre) \ (BareEntries(clean.pre) \cup RegularFiles) :
       /\ ~Registered(clean.pre, q)
       /\ q \in dirs

(***************************************************************************)
(* C39: every Resolve(temp=true) that gets past the validation of the bare *)
(* repository sets remote.origin.fetch to                                  *)
(* +refs/heads/*:refs/remotes/origin/* on the bare repository before any   *)
(* worktree check or fetch, whether the bare repository was just cloned    *)
(* or already existed; an existing path that is not a repository fails     *)
(* the call without cloning or writing configuration.                      *)
(***************************************************************************)
TempBare(f) == bareDirOf(TempDir, f.pr)

(* git clone --bare succeeded, or the existing path is a repository *)
Validated(f) ==
  {i \in 1..Len(f.log) :
     \/ f.log[i].op = "CloneBare" /\ f.log[i].dir = TempBare(f) /\ f.log[i].res = "ok"
     \/ f.log[i] = Op("IsGitRepo", TempBare(f), <<>>, "true")}

Bootstraps(f) == {i \in 1..Len(f.log) : BareBootstrap(f, f.log[i])}

WorktreeChecks(f) ==
  {i \in 1..Len(f.log) :
     f.log[i].op \in {"HasRemote", "AddRemote", "HasWorktreeForBranch", "WorktreeList",
                      "Fetch", "WorktreeAddBranch", "SetUpstream", "ConfigSetWorktree"}}

NotARepo(f) == TempBare(f) \in f.pre.dirs /\ ~IsGitRepo(f.pre, TempBare(f))

C39_BareBootstrap ==
  \A c \in Calls :
    LET f == frame[c]
    IN  f.temp /\ f.pc \notin {"idle", "mkdirTemp", "ensureBareRepo"}
        => /\ \A i \in Validated(f) : (i + 1) \in Bootstraps(f)
           /\ Validated(f) # {}
              => (IsGitRepo(f.pre, TempBare(f)) <=> f.log[Min(Validated(f))].op = "IsGitRepo")
           /\ \A k \in WorktreeChecks(f) :
                \E i \in Bootstraps(f) : i < k /\ f.log[i].res = "ok"
           /\ Validated(f) = {} => Done(c) /\ f.err # "" /\ WorktreeChecks(f) = {}
           /\ NotARepo(f)
              => /\ Done(c) /\ f.err # ""
                 /\ OpsOf(f, "CloneBare") = {}
                 /\ OpsOf(f, "ConfigSet") = {}
                 /\ World = f.pre

(* a call on a bare repository that already existed: the refspec was set   *)
(* again, then the worktree check ran and the call returned a worktree     *)
C39_Witness ==
  \E c \in Calls :
    LET f == frame[c]
    IN  /\ f.temp /\ Done(c) /\ f.err = ""
        /\ IsGitRepo(f.pre, TempBare(f))
        /\ \E i \in Bootstraps(f) : \E k \in OpsOf(f, "HasWorktreeForBranch") :
             i < k /\ f.log[i].res = "ok"

====
